---- MODULE Spec2Model ----
(***************************************************************************)
(* Model of the backend of aws-mongodb-app: the JWT helpers                *)
(* (utils/jwt.js), the users routes and the products routes, together with *)
(* the access-control middleware the routes are declared with.             *)
(*                                                                         *)
(* Two specifications share the variables:                                 *)
(*   SpecJwt  the JWT helpers applied to drawn inputs (pure functions);    *)
(*   Spec     HTTP requests running through the middleware chain and the   *)
(*            route handlers against the users and products collections.   *)
(***************************************************************************)
EXTENDS Integers, Sequences, FiniteSets, TLC

(***************************************************************************)
(* JavaScript values                                                       *)
(***************************************************************************)
\* undefined / null / a missing property, for string-valued properties
Undefined == "undefined"

\* JS truthiness of a string-valued property
TruthyStr(s) == s \notin {Undefined, ""}

\* a value that is a number, a string or undefined (options.expiresIn)
Num(n) == [kind |-> "num", n |-> n, s |-> ""]
Str(s) == [kind |-> "str", n |-> 0, s |-> s]
Undef  == [kind |-> "undef", n |-> 0, s |-> ""]

\* JS truthiness of such a value: 0, "" and undefined are falsy
Truthy(v) == \/ v.kind = "num" /\ v.n # 0
             \/ v.kind = "str" /\ v.s # ""

\* a || b
OrElse(a, b) == IF Truthy(a) THEN a ELSE b

(***************************************************************************)
(* Time.  The clock counts seconds, as Math.floor(Date.now() / 1000).      *)
(***************************************************************************)
DAY == 24 * 60 * 60

\* the time-span strings the program uses, converted as the `ms` package does
SpanDays == [x \in {"1d", "7d", "30d"} |->
               CASE x = "1d" -> 1 [] x = "7d" -> 7 [] x = "30d" -> 30]

\* jsonwebtoken's timespan(): a number is seconds, a string goes through ms
timespan(v) == IF v.kind = "num" THEN v.n ELSE SpanDays[v.s] * DAY

\* the instants the clock is sampled at: around issue, around the 1-day,
\* 7-day and 30-day expiries
Instants == {0, 1, DAY, 7 * DAY, 30 * DAY}

(***************************************************************************)
(* Configuration (process.env)                                             *)
(***************************************************************************)
Secrets   == {"s1"}
AppNames  == {Undefined, "MyApp"}
JwtExpire == {Undef, Str("1d")}

Envs == [JWT_SECRET : Secrets, JWT_EXPIRE : JwtExpire, APP_NAME : AppNames]

\* process.env.APP_NAME || 'AWS MongoDB Backend'
Issuer(e) == IF TruthyStr(e.APP_NAME) THEN e.APP_NAME ELSE "AWS MongoDB Backend"

Audience == "aws-mongodb-app-users"

(***************************************************************************)
(* Tokens.  A token is header.payload.signature; the header is fixed       *)
(* (HS256), the payload is the claims record (NoPayload when the segment   *)
(* does not decode) and the signature is a sequence of symbols.            *)
(***************************************************************************)
UserIds == {"u1", "u2", "u3"}
Roles   == {"user", "admin"}
EmailOf == [u \in UserIds |-> CASE u = "u1" -> "admin@example.com"
                                [] u = "u2" -> "b@x.com"
                                [] u = "u3" -> "c@x.com"]

\* the symbol a string is written as inside a signature
StrSyms == <<Undefined, "", "user", "admin", "refresh", "a@x.com", "b@x.com",
             "c@x.com", "admin@example.com", "u1", "u2", "u3", "s1", "s2", "MyApp",
             "AWS MongoDB Backend", "aws-mongodb-app-users", "Other">>
SymOf == [s \in {StrSyms[i] : i \in 1..Len(StrSyms)} |->
            CHOOSE i \in 1..Len(StrSyms) : StrSyms[i] = s]
Sym(s) == SymOf[s]

\* HMAC-SHA256 over the signing input under a key, kept as what it is used
\* for: a deterministic keyed digest that differs whenever key or input do.
HS256(p, key) ==
  <<Sym(key), Sym(p.userId), Sym(p.role), Sym(p.email), Sym(p.type),
    p.iat, p.exp, Sym(p.iss), Sym(p.aud), IF p.hasExp THEN 1 ELSE 0>>

\* jwt.sign(payload, secret, {expiresIn, issuer, audience}) at clock t; without
\* expiresIn the payload gets no exp claim (hasExp is FALSE, exp is unused)
jwtSign(p, key, opts, t) ==
  LET claims == [userId |-> p.userId, role |-> p.role, email |-> p.email,
                 type |-> p.type, iat |-> t,
                 hasExp |-> opts.expiresIn.kind # "undef",
                 exp |-> IF opts.expiresIn.kind = "undef" THEN 0
                         ELSE t + timespan(opts.expiresIn),
                 iss |-> opts.issuer, aud |-> opts.audience]
  IN  [decodes |-> TRUE, payload |-> claims, sig |-> HS256(claims, key)]

NoPayload == [userId |-> Undefined, role |-> Undefined, email |-> Undefined,
              type |-> Undefined, iat |-> 0, hasExp |-> FALSE, exp |-> 0,
              iss |-> Undefined, aud |-> Undefined]

\* the number of symbols of a signature segment
SigLen == Len(HS256(NoPayload, "s1"))

\* the string 'invalid.token.here': three segments, none of them decodable
InvalidTokenHere == [decodes |-> FALSE, payload |-> NoPayload,
                     sig |-> [i \in 1..SigLen |-> 0]]

\* options of generateToken: {role, email, expiresIn} and, unrecognised, type
OptExpires == {Undef, Num(0), Num(1), Num(-1), Str("1d")}
Opt(r, m, x, ty) == [role |-> r, email |-> m, expiresIn |-> x, type |-> ty]
Options ==
  {Opt(r, m, Undef, Undefined) : r \in {Undefined, "", "admin"},
                                 m \in {Undefined, "a@x.com"}}
  \cup {Opt("admin", "a@x.com", x, Undefined) : x \in OptExpires}
  \cup {Opt(r, Undefined, Undef, "refresh") : r \in {Undefined, "admin"}}

generateToken_copiesOptions(userId, options, e, t) ==
  jwtSign([userId |-> userId,
           role |-> IF TruthyStr(options.role) THEN options.role ELSE Undefined,
           email |-> IF TruthyStr(options.email) THEN options.email ELSE Undefined,
           type |-> options.type],
          e.JWT_SECRET,
          [expiresIn |-> OrElse(options.expiresIn, OrElse(e.JWT_EXPIRE, Str("7d"))),
           issuer |-> Issuer(e), audience |-> Audience], t)

generateToken_dropsRole(userId, options, e, t) ==
  jwtSign([userId |-> userId, role |-> Undefined,
           email |-> IF TruthyStr(options.email) THEN options.email ELSE Undefined,
           type |-> Undefined],
          e.JWT_SECRET,
          [expiresIn |-> OrElse(options.expiresIn, OrElse(e.JWT_EXPIRE, Str("7d"))),
           issuer |-> Issuer(e), audience |-> Audience], t)

generateToken(userId, options, e, t) ==
  jwtSign([userId |-> userId,
           role |-> IF TruthyStr(options.role) THEN options.role ELSE Undefined,
           email |-> IF TruthyStr(options.email) THEN options.email ELSE Undefined,
           type |-> Undefined],
          e.JWT_SECRET,
          [expiresIn |-> OrElse(options.expiresIn, OrElse(e.JWT_EXPIRE, Str("7d"))),
           issuer |-> Issuer(e), audience |-> Audience], t)

generateRefreshToken(userId, e, t) ==
  jwtSign([userId |-> userId, role |-> Undefined, email |-> Undefined,
           type |-> "refresh"],
          e.JWT_SECRET,
          [expiresIn |-> Str("30d"), issuer |-> Issuer(e), audience |-> Audience],
          t)

\* jwt.verify(token, secret, {issuer, audience}) at clock t: the result is the
\* payload, or the error thrown
Thrown(err) == [ok |-> FALSE, error |-> err, payload |-> NoPayload]

jwtVerify(tok, key, opts, t) ==
  IF ~tok.decodes THEN Thrown("jwt malformed")
  ELSE IF tok.sig # HS256(tok.payload, key) THEN Thrown("invalid signature")
  ELSE IF tok.payload.hasExp /\ t >= tok.payload.exp THEN Thrown("jwt expired")
  ELSE IF tok.payload.aud # opts.audience THEN Thrown("jwt audience invalid")
  ELSE IF tok.payload.iss # opts.issuer THEN Thrown("jwt issuer invalid")
  ELSE [ok |-> TRUE, error |-> "", payload |-> tok.payload]

verifyToken_comparesPrefix(tok, e, t) ==
  IF ~tok.decodes THEN Thrown("jwt malformed")
  ELSE IF SubSeq(tok.sig, 1, SigLen - 1)
            # SubSeq(HS256(tok.payload, e.JWT_SECRET), 1, SigLen - 1)
       THEN Thrown("invalid signature")
  ELSE IF tok.payload.hasExp /\ t >= tok.payload.exp THEN Thrown("jwt expired")
  ELSE IF tok.payload.aud # Audience THEN Thrown("jwt audience invalid")
  ELSE IF tok.payload.iss # Issuer(e) THEN Thrown("jwt issuer invalid")
  ELSE [ok |-> TRUE, error |-> "", payload |-> tok.payload]

verifyToken_decodeOnly(tok, e, t) ==
  IF ~tok.decodes THEN Thrown("jwt malformed")
  ELSE [ok |-> TRUE, error |-> "", payload |-> tok.payload]

verifyToken_anyIssuer(tok, e, t) ==
  jwtVerify(tok, e.JWT_SECRET,
            [issuer |-> tok.payload.iss, audience |-> Audience], t)

verifyToken(tok, e, t) ==
  jwtVerify(tok, e.JWT_SECRET, [issuer |-> Issuer(e), audience |-> Audience], t)

\* isTokenExpired: jwt.decode (no signature check), then exp against the clock
isTokenExpired_atExpiry(tok, t) ==
  IF ~tok.decodes \/ ~tok.payload.hasExp \/ tok.payload.exp = 0 THEN TRUE
  ELSE tok.payload.exp <= t

isTokenExpired(tok, t) ==
  IF ~tok.decodes \/ ~tok.payload.hasExp \/ tok.payload.exp = 0 THEN TRUE
  ELSE tok.payload.exp < t

\* one symbol of the signature segment replaced by a different one
FlipSyms == {0, 1}
Flip(tok, pos, c) == [tok EXCEPT !.sig[pos] = c]

(***************************************************************************)
(* The Authorization header.  A header value is kept as the pieces         *)
(* between its spaces, which is what split(' ') sees; a piece is a word    *)
(* or a token.                                                             *)
(***************************************************************************)
Word(text)  == [text |-> text, tok |-> InvalidTokenHere]
TokWord(t)  == [text |-> "<jwt>", tok |-> t]
NoHeader    == [present |-> FALSE, parts |-> <<>>]
Header(ps)  == [present |-> TRUE, parts |-> ps]
Bearer(t)   == Header(<<Word("Bearer"), TokWord(t)>>)

\* the result of extractTokenFromHeader: null, or parts[1]
Null == [isNull |-> TRUE, text |-> "", tok |-> InvalidTokenHere]
Got(w) == [isNull |-> FALSE, text |-> w.text, tok |-> w.tok]

extractTokenFromHeader(authHeader) ==
  IF ~authHeader.present \/ authHeader.parts = <<Word("")>> THEN Null
  ELSE IF Len(authHeader.parts) # 2 \/ authHeader.parts[1].text # "Bearer"
       THEN Null
  ELSE Got(authHeader.parts[2])

(***************************************************************************)
(* The access-control middleware (middleware/auth.js, middleware/admin.js) *)
(* and the refresh handler (routes/auth.js).                               *)
(***************************************************************************)
NoUser == [userId |-> Undefined, role |-> Undefined, email |-> Undefined]

\* authentication gate: extract the bearer token, verify it, attach the
\* decoded identity; 401 when either step fails
auth(authHeader, e, t) ==
  LET token == extractTokenFromHeader(authHeader)
      decoded == verifyToken(token.tok, e, t)
  IN  IF token.isNull \/ token.text = "" THEN [next |-> FALSE, status |-> 401, user |-> NoUser]
      ELSE IF token.text # "<jwt>" \/ ~decoded.ok THEN [next |-> FALSE, status |-> 401, user |-> NoUser]
      ELSE [next |-> TRUE, status |-> 0,
            user |-> [userId |-> decoded.payload.userId,
                      role |-> decoded.payload.role,
                      email |-> decoded.payload.email]]

\* role gate: 403 unless the attached role is admin
admin(user) ==
  IF user.role # "admin" THEN [next |-> FALSE, status |-> 403]
  ELSE [next |-> TRUE, status |-> 0]

\* POST /auth/refresh: verify the supplied token, require the refresh marker
refresh(tok, e, t) ==
  LET decoded == verifyToken(tok, e, t)
  IN  IF ~decoded.ok THEN 401
      ELSE IF decoded.payload.type # "refresh" THEN 401
      ELSE 200

(***************************************************************************)
(* State                                                                   *)
(***************************************************************************)
\* extractTokenFromHeader has not been applied yet
NotParsed == [isNull |-> TRUE, text |-> "not parsed", tok |-> InvalidTokenHere]

\* the process after start.js has loaded server.js on a complete configuration
Serving == [pc |-> "serving", exit |-> 0, envFile |-> TRUE, inCwd |-> TRUE,
            file |-> [JWT_SECRET |-> "s1", MONGODB_URI |-> "mongodb://db"],
            uri |-> "mongodb://db", loaded |-> TRUE]

VARIABLES
  env,       \* process.env, fixed once the process has started
  now,       \* the clock, in seconds
  token,     \* SpecJwt: the token under test
  made,      \* SpecJwt: the call that produced it
  result,    \* SpecJwt: the last helper applied to it and what it returned
  users,     \* the users collection
  products,  \* the products collection
  accounts,  \* for each user id, the role the tokens issued to it carry
  req,       \* per client, the request in flight or the last one answered
  header,    \* SpecHeader: the Authorization header value under test
  parsed,    \* SpecHeader: what extractTokenFromHeader returned for it
  boot,      \* SpecStart: how far start.js has got, and on what configuration
  peer,      \* SpecFleet: process.env of a second instance of the server
  docker,    \* SpecDocker: the docker host and the run of manage-containers.sh
  aws,       \* SpecDeploy: the AWS account, the key file and the run of deploy.sh
  paging     \* SpecPaging: a list request's query, the matches and the answer

vars == <<env, now, token, made, result, users, products, accounts, req,
          header, parsed, boot, peer, docker, aws, paging>>

\* what only the specifications of the scripts and of the pure functions change
opsVars == <<peer, docker, aws, paging>>

\* what only SpecHeader and SpecStart change
sideVars == <<header, parsed, boot, opsVars>>

(***************************************************************************)
(* SpecJwt: the helpers of utils/jwt.js applied to drawn inputs, as        *)
(* test-jwt.js applies them                                                *)
(***************************************************************************)
JwtUserIds == {"u1", "u2"}

NotMade == [fn |-> "none", userId |-> Undefined,
            options |-> [role |-> Undefined, email |-> Undefined,
                         expiresIn |-> Undef, type |-> Undefined],
            at |-> 0, tampered |-> FALSE]
NoResult == [op |-> "none", ok |-> FALSE, payload |-> NoPayload, status |-> 0]

apiVars == <<users, products, accounts, req, sideVars>>

GenerateToken(u, o) ==
  /\ token' = generateToken(u, o, env, now)
  /\ made' = [fn |-> "generateToken", userId |-> u, options |-> o,
              at |-> now, tampered |-> FALSE]
  /\ result' = NoResult
  /\ UNCHANGED <<env, now, apiVars>>

GenerateRefreshToken(u) ==
  /\ token' = generateRefreshToken(u, env, now)
  /\ made' = [NotMade EXCEPT !.fn = "generateRefreshToken", !.userId = u,
                             !.at = now]
  /\ result' = NoResult
  /\ UNCHANGED <<env, now, apiVars>>

\* a client flips one symbol of the signature segment
TamperSignature(pos, c) ==
  /\ made.fn # "none" /\ ~made.tampered
  /\ token.sig[pos] # c
  /\ token' = Flip(token, pos, c)
  /\ made' = [made EXCEPT !.tampered = TRUE]
  /\ result' = NoResult
  /\ UNCHANGED <<env, now, apiVars>>

VerifyToken ==
  /\ made.fn # "none"
  /\ LET r == verifyToken(token, env, now)
     IN  result' = [op |-> "verifyToken", ok |-> r.ok, payload |-> r.payload,
                    status |-> 0]
  /\ UNCHANGED <<env, now, token, made, apiVars>>

IsTokenExpired ==
  /\ made.fn # "none"
  /\ result' = [NoResult EXCEPT !.op = "isTokenExpired",
                                !.ok = isTokenExpired(token, now)]
  /\ UNCHANGED <<env, now, token, made, apiVars>>

\* the token presented as the bearer credential of a protected route
PresentBearer ==
  /\ made.fn # "none"
  /\ LET g == auth(Bearer(token), env, now)
     IN  result' = [NoResult EXCEPT !.op = "auth", !.ok = g.next,
                                    !.status = g.status,
                                    !.payload.userId = g.user.userId,
                                    !.payload.role = g.user.role,
                                    !.payload.email = g.user.email]
  /\ UNCHANGED <<env, now, token, made, apiVars>>

\* the token supplied as body.refreshToken of POST /auth/refresh
PresentRefresh ==
  /\ made.fn # "none"
  /\ LET st == refresh(token, env, now)
     IN  result' = [NoResult EXCEPT !.op = "refresh", !.ok = (st = 200),
                                    !.status = st]
  /\ UNCHANGED <<env, now, token, made, apiVars>>

TickJwt ==
  /\ \E t \in Instants : t > now /\ now' = t
  /\ result' = NoResult
  /\ UNCHANGED <<env, token, made, apiVars>>

(***************************************************************************)
(* SpecForge: verifyToken and isTokenExpired applied to tokens the server  *)
(* did not issue: signed by jwt.sign under another key, for another issuer *)
(* or audience, already expired, without an exp claim, or not a JWT.       *)
(***************************************************************************)
ForgerKey == "s2"

\* who signed, for which issuer and audience, with which lifetime.  Under the
\* configured secret only tokens with a lifetime exist: both issuers of
\* utils/jwt.js always pass expiresIn.
Forgeries ==
  {f \in [key : {"s1", ForgerKey},
          iss : {"AWS MongoDB Backend", "MyApp", "Other"},
          aud : {Audience, "Other"},
          x   : {Undef, Str("1d"), Num(-1)}] :
     f.key = "s1" => f.x # Undef}

ForgeToken(f) ==
  /\ token' = jwtSign([userId |-> "u1", role |-> "admin", email |-> "a@x.com",
                       type |-> Undefined],
                      f.key, [expiresIn |-> f.x, issuer |-> f.iss,
                              audience |-> f.aud], now)
  /\ made' = [NotMade EXCEPT !.fn = "jwt.sign", !.userId = "u1", !.at = now,
                             !.options.expiresIn = f.x]
  /\ result' = NoResult
  /\ UNCHANGED <<env, now, apiVars>>

\* the string 'invalid.token.here' of test-jwt.js
TakeInvalidToken ==
  /\ token' = InvalidTokenHere
  /\ made' = [NotMade EXCEPT !.fn = "literal", !.at = now]
  /\ result' = NoResult
  /\ UNCHANGED <<env, now, apiVars>>

(***************************************************************************)
(* The collections                                                         *)
(***************************************************************************)
ProductIds == {"p1", "p2"}
BadId      == "zz"          \* a string that is no ObjectId: the cast throws
Names      == {"admin", "bob", "carol"}
Categories == {"electronics", "clothing", "books", "home", "sports", "other"}

NoRecord  == [exists |-> FALSE, username |-> Undefined, email |-> Undefined,
              role |-> Undefined, isActive |-> FALSE]
NoProduct == [exists |-> FALSE, price |-> 0, category |-> Undefined,
              stock |-> 0, isActive |-> FALSE, createdBy |-> Undefined]

\* the sample data of init.js: one admin, sample products of no known user
SeedAdmin   == [exists |-> TRUE, username |-> "admin",
                email |-> "admin@example.com", role |-> "admin",
                isActive |-> TRUE]
SeedProduct == [exists |-> TRUE, price |-> 9, category |-> "electronics",
                stock |-> 10, isActive |-> TRUE, createdBy |-> "seed"]

Member(name, mail, role) == [exists |-> TRUE, username |-> name, email |-> mail,
                             role |-> role, isActive |-> TRUE]

\* the collections the server may start on
InitUsers ==
  { [u \in UserIds |-> CASE u = "u1" -> SeedAdmin [] u = "u2" -> r2 [] u = "u3" -> NoRecord] :
      r2 \in {Member("bob", "b@x.com", "admin"), Member("bob", "b@x.com", "user")} }

InitProducts == [p \in ProductIds |-> IF p = "p1" THEN SeedProduct ELSE NoProduct]

(***************************************************************************)
(* Requests                                                                *)
(***************************************************************************)
Clients == {"c1"}

UserRoutes == {"GET /users", "GET /users/:id", "PUT /users/:id",
               "DELETE /users/:id", "PUT /users/:id/toggle-status"}
ProductRoutes == {"GET /products", "GET /products/:id", "POST /products",
                  "PUT /products/:id", "DELETE /products/:id",
                  "GET /products/category/:category"}
Routes == UserRoutes \cup ProductRoutes

\* the middleware each route is declared with, in the order given
Chain_putUserAdminOnly(route) ==
  CASE route \in {"GET /users", "DELETE /users/:id",
                  "PUT /users/:id/toggle-status", "PUT /users/:id",
                  "POST /products", "PUT /products/:id",
                  "DELETE /products/:id"} -> <<"auth", "admin">>
    [] route \in {"GET /users/:id"} -> <<"auth">>
    [] OTHER -> <<>>

Chain_deleteProductAuthOnly(route) ==
  CASE route \in {"GET /users", "DELETE /users/:id",
                  "PUT /users/:id/toggle-status",
                  "POST /products", "PUT /products/:id"} -> <<"auth", "admin">>
    [] route \in {"GET /users/:id", "PUT /users/:id",
                  "DELETE /products/:id"} -> <<"auth">>
    [] OTHER -> <<>>

Chain(route) ==
  CASE route \in {"GET /users", "DELETE /users/:id",
                  "PUT /users/:id/toggle-status",
                  "POST /products", "PUT /products/:id",
                  "DELETE /products/:id"} -> <<"auth", "admin">>
    [] route \in {"GET /users/:id", "PUT /users/:id"} -> <<"auth">>
    [] OTHER -> <<>>

HasParam(route) == route \in {"GET /users/:id", "PUT /users/:id",
                              "DELETE /users/:id", "PUT /users/:id/toggle-status",
                              "GET /products/:id", "PUT /products/:id",
                              "DELETE /products/:id"}

\* request bodies: the keys the two Joi schemas look at, and whether the body
\* carries a key the schema does not declare
NoBody == [username |-> Undefined, email |-> Undefined, price |-> 0,
           category |-> Undefined, stock |-> Undef, unknown |-> FALSE]
UserBodies == {[NoBody EXCEPT !.username = n] : n \in {Undefined, "al", "admin", "carol"}}
              \cup {[NoBody EXCEPT !.unknown = TRUE]}
ProductBodies == {[NoBody EXCEPT !.price = pr, !.category = cat] :
                    pr \in {-1, 5}, cat \in {"books", "toys"}}
                 \cup {[NoBody EXCEPT !.price = 5, !.category = "books",
                                      !.stock = Num(n)] : n \in {-1, 0}}
                 \cup {[NoBody EXCEPT !.price = 5, !.category = "books",
                                      !.unknown = TRUE]}

\* updateUserSchema.validate(body) reports no error
UsernameMin == 3
StrLen == [n \in {"al", "bob", "dave", "carol", "admin"} |->
             CASE n = "al" -> 2 [] n = "bob" -> 3 [] n = "dave" -> 4 [] OTHER -> 5]
updateUserSchemaOk_allowsUnknown(body) ==
  /\ body.username # ""
  /\ body.username # Undefined => StrLen[body.username] >= UsernameMin

updateUserSchemaOk(body) ==
  /\ ~body.unknown
  /\ body.username # ""
  /\ body.username # Undefined => StrLen[body.username] >= UsernameMin

\* productSchema.validate(body) reports no error
productSchemaOk_noStock(body) ==
  /\ ~body.unknown
  /\ body.price >= 0
  /\ body.category \in Categories

productSchemaOk(body) ==
  /\ ~body.unknown
  /\ body.price >= 0
  /\ body.category \in Categories
  /\ body.stock.kind = "num" => body.stock.n >= 0

\* the validators of the mongoose productSchema, run by save() and, with
\* runValidators, by findByIdAndUpdate on the keys of the update
productValidatorsOk(body) ==
  /\ body.price >= 0
  /\ body.category \in Categories
  /\ body.stock.kind = "num" => body.stock.n >= 0

\* POST /auth/register: the username and email of the body
RegisterBodies ==
  {[NoBody EXCEPT !.username = b[1], !.email = b[2]] :
     b \in {<<"carol", "c@x.com">>, <<"dave", "c@x.com">>,
            <<"carol", "b@x.com">>, <<"bob", "c@x.com">>,
            <<"al", "c@x.com">>}}
registerSchemaOk(body) ==
  /\ ~body.unknown
  /\ body.username # Undefined /\ StrLen[body.username] >= UsernameMin
  /\ body.email # Undefined

NoCred == [how |-> "none", sub |-> Undefined, fresh |-> FALSE]
\* the response: how many were sent, and the JSON body of the last one
NoResponse == [success |-> FALSE, message |-> "", keys |-> {}]
Idle == [pc |-> "idle", route |-> "", id |-> Undefined, body |-> NoBody,
         cred |-> NoCred, user |-> NoUser, ran |-> <<>>, passed |-> <<>>,
         handled |-> FALSE, status |-> 0, disclosed |-> {}, found |-> FALSE,
         loaded |-> FALSE, sent |-> 0, res |-> NoResponse, threw |-> ""]

\* the body each res.status(st).json({...}) of the routes carries: success
\* is true in the bodies sent with 200 and 201 and false in all others
Message(route, st) ==
  CASE st = 500 -> "Server error"
    [] st = 404 -> IF route \in UserRoutes THEN "User not found"
                   ELSE "Product not found"
    [] st = 403 -> "Access denied"
    [] st = 401 -> "Not authorized"
    [] st = 400 -> "Bad request"
    [] OTHER -> ""
Envelope(route, st) ==
  [success |-> st \in {200, 201}, message |-> Message(route, st),
   keys |-> IF st \in {200, 201} THEN {"success", "payload"}
            ELSE {"success", "message"}]

(***************************************************************************)
(* Credentials a client can present.  A login or registration of account u *)
(* at instant t hands the client generateToken(u, {role, email}) and       *)
(* generateRefreshToken(u); `accounts` keeps the role of an account after  *)
(* its record is gone, since its tokens stay in circulation.               *)
(***************************************************************************)
\* the instants the tokens in circulation were issued at: at the latest login,
\* or a week before it (Spec keeps the clock still: requests take seconds,
\* tokens live for days)
LoginInstants == {0 - 7 * DAY, 0}

Issuable(u, t) == accounts[u].role # Undefined /\ t <= now

loginToken(u, t) ==
  generateToken(u, [role |-> accounts[u].role, email |-> accounts[u].email,
                    expiresIn |-> Undef, type |-> Undefined], env, t)

CredKinds == {"none", "access", "refresh", "tampered", "malformed", "forged",
              "scheme", "segments", "empty"}

\* the Authorization header of a credential of kind `how`
Credential(how, u, t, pos, c) ==
  CASE how = "none"      -> NoHeader
    [] how = "access"    -> Bearer(loginToken(u, t))
    [] how = "refresh"   -> Bearer(generateRefreshToken(u, env, t))
    [] how = "tampered"  -> Bearer(Flip(loginToken(u, t), pos, c))
    [] how = "malformed" -> Bearer(InvalidTokenHere)
    [] how = "forged"    -> Bearer(generateToken(u, [role |-> "admin",
                                email |-> EmailOf[u], expiresIn |-> Undef,
                                type |-> Undefined],
                              [env EXCEPT !.JWT_SECRET = ForgerKey], t))
    [] how = "scheme"    -> Header(<<Word("bearer"), TokWord(loginToken(u, t))>>)
    [] how = "segments"  -> Header(<<Word("Bearer"), Word(""), TokWord(loginToken(u, t))>>)
    [] how = "empty"     -> Header(<<Word("Bearer"), Word("")>>)

CredTokens == {"access", "refresh", "tampered", "forged", "scheme", "segments"}

\* Express runs the middleware of a route in the order of its array and
\* stops at the first one that answers instead of calling next()
RECURSIVE runChain(_, _, _, _)
runChain(chain, i, authHeader, acc) ==
  IF i > Len(chain) THEN acc
  ELSE LET g == chain[i]
           r == IF g = "auth" THEN auth(authHeader, env, now)
                ELSE [next |-> admin(acc.user).next,
                      status |-> admin(acc.user).status, user |-> acc.user]
           after == [user |-> r.user, ran |-> Append(acc.ran, g),
                     passed |-> IF r.next THEN Append(acc.passed, g)
                                ELSE acc.passed,
                     status |-> r.status]
       IN  IF r.next THEN runChain(chain, i + 1, authHeader, after) ELSE after

jwtVars == <<token, made, result>>

\* a request arrives and runs through the middleware of its route; neither
\* gate reads req.params or req.body
Request(c, route, how, u, t, pos, sym) ==
  /\ req[c].pc = "idle"
  /\ how \in CredTokens => Issuable(u, t)
  /\ how = "tampered" => loginToken(u, t).sig[pos] # sym
  /\ LET authHeader == Credential(how, u, t, pos, sym)
         g == runChain(Chain(route), 1, authHeader,
                       [user |-> NoUser, ran |-> <<>>, passed |-> <<>>,
                        status |-> 0])
         cred == [how |-> how,
                  sub |-> IF how \in CredTokens THEN u ELSE Undefined,
                  fresh |-> /\ how \in CredTokens
                            /\ now < authHeader.parts[Len(authHeader.parts)].tok.payload.exp]
     IN  req' = [req EXCEPT ![c] =
                   [Idle EXCEPT !.pc = IF g.status = 0 THEN "handler" ELSE "done",
                                !.route = route,
                                !.cred = cred, !.user = g.user, !.ran = g.ran,
                                !.passed = g.passed,
                                !.handled = (g.status = 0),
                                !.status = g.status,
                                !.sent = IF g.status = 0 THEN 0 ELSE 1,
                                !.res = IF g.status = 0 THEN NoResponse
                                        ELSE Envelope(route, g.status)]]
  /\ UNCHANGED <<env, now, jwtVars, sideVars, users, products, accounts>>

\* the credentials a request to `route` is drawn with: public routes run no
\* middleware, so their header is never read
CredsFor(route) == IF Chain(route) = <<>> THEN {"none"} ELSE CredKinds
CredOfAccount == {"access", "refresh", "tampered", "forged"}
SubjectsFor(how) == IF how \in CredOfAccount THEN UserIds ELSE {"u1"}
InstantsFor(how) == IF how \in CredOfAccount THEN LoginInstants ELSE {0}
PositionsFor(how) == IF how = "tampered" THEN {1, SigLen} ELSE {1}
SymsFor(how) == {0}

\* res.status(st).json(...): the handler answers and ends
Answer(c, r, st, disc) ==
  req' = [req EXCEPT ![c] = [r EXCEPT !.pc = "done", !.status = st,
                                      !.disclosed = disc, !.sent = @ + 1,
                                      !.res = Envelope(r.route, st)]]

\* the same with a message of the handler's own
Reply(c, r, st, msg) ==
  req' = [req EXCEPT ![c] = [r EXCEPT !.pc = "done", !.status = st,
                                      !.sent = @ + 1,
                                      !.res = [Envelope(r.route, st)
                                                 EXCEPT !.message = msg]]]

\* the exception a store call raises: the cast of a malformed id, or a
\* failure of the operation itself
Error(fault, id) == IF id = BadId THEN "CastError" ELSE "StoreError"

\* catch (error) { console.error(...); res.status(500).json({success: false,
\* message: 'Server error'}) }
Catch_noResponse(c, r, err) ==
  req' = [req EXCEPT ![c] = [r EXCEPT !.pc = "done", !.status = 500,
                                      !.threw = err]]

Catch(c, r, err) ==
  req' = [req EXCEPT ![c] = [r EXCEPT !.pc = "done", !.status = 500,
                                      !.threw = err, !.sent = @ + 1,
                                      !.res = Envelope(r.route, 500)]]
Await(c, r) == req' = [req EXCEPT ![c] = [r EXCEPT !.pc = "write"]]

\* the handler of `route` starts on request c
Handling(c, route) == req[c].pc = "handler" /\ req[c].route = route
\* the req.params.id and req.body it may find
ParamsOf(route) == IF ~HasParam(route) THEN {Undefined}
                   ELSE IF route \in UserRoutes THEN UserIds \cup {BadId}
                   ELSE ProductIds \cup {BadId}
BodiesOf(route) == IF route = "PUT /users/:id" THEN UserBodies
                   ELSE IF route = "POST /auth/register" THEN RegisterBodies
                   ELSE IF route \in {"POST /products", "PUT /products/:id"}
                        THEN ProductBodies
                   ELSE {NoBody}
Started(c, id, body) == [req[c] EXCEPT !.id = id, !.body = body]
Writing(c, route)  == req[c].pc = "write" /\ req[c].route = route
\* the ownership test of GET and PUT /users/:id
MayAct(r) == r.user.userId = r.id \/ r.user.role = "admin"

\* the self-protection test of DELETE /users/:id and toggle-status
IsSelf_never(r) == FALSE
IsSelf(r) == r.user.userId = r.id

\* findById(req.params.id) of request r: what it returns is kept in r.found
Looked(r) == [r EXCEPT !.found = users[r.id].exists]
Existing == {u \in UserIds : users[u].exists}

\* the unique indexes on users.username and users.email: the write of these
\* values into record id is rejected (E11000) when another record holds one
DuplicateKey_usernameOnly(id, name, mail) ==
  \E o \in Existing \ {id} : name # Undefined /\ users[o].username = name

DuplicateKey_none(id, name, mail) == FALSE

DuplicateKey(id, name, mail) ==
  \E o \in Existing \ {id} :
    \/ name # Undefined /\ users[o].username = name
    \/ mail # Undefined /\ users[o].email = mail

fixed == <<env, now, jwtVars, sideVars>>

(***************************************************************************)
(* Users routes.  `fault` is a store operation that rejects (the database  *)
(* is unreachable, a command fails); a malformed :id makes the cast throw. *)
(* A handler with a read followed by a write is two steps, one per await.  *)
(***************************************************************************)
\* GET /users
GetUsers(c) ==
  /\ Handling(c, "GET /users")
  /\ \E id \in ParamsOf("GET /users"), body \in BodiesOf("GET /users"), fault \in BOOLEAN :
       LET r == Started(c, id, body)
       IN  IF fault THEN Catch(c, r, Error(fault, r.id)) ELSE Answer(c, r, 200, Existing)
  /\ UNCHANGED <<fixed, users, products, accounts>>

\* GET /users/:id
GetUser(c) ==
  /\ Handling(c, "GET /users/:id")
  /\ \E id \in ParamsOf("GET /users/:id"), body \in BodiesOf("GET /users/:id"), fault \in BOOLEAN :
       LET r == Started(c, id, body)
       IN  IF fault \/ r.id = BadId THEN Catch(c, r, Error(fault, r.id))
           ELSE IF ~users[r.id].exists THEN Answer(c, r, 404, {})
           ELSE IF ~MayAct(r) THEN Answer(c, r, 403, {})
           ELSE Answer(c, r, 200, {r.id})
  /\ UNCHANGED <<fixed, users, products, accounts>>

\* PUT /users/:id, up to the username lookup
PutUserCheck(c) ==
  /\ Handling(c, "PUT /users/:id")
  /\ \E id \in ParamsOf("PUT /users/:id"), body \in BodiesOf("PUT /users/:id"), fault \in BOOLEAN :
       LET r == Started(c, id, body)
       IN  IF ~updateUserSchemaOk(r.body) THEN Answer(c, r, 400, {})
           ELSE IF ~MayAct(r) THEN Answer(c, r, 403, {})
           ELSE IF ~TruthyStr(r.body.username)
                THEN Await(c, r)
           ELSE IF fault \/ r.id = BadId THEN Catch(c, r, Error(fault, r.id))
           ELSE IF \E o \in Existing : o # r.id /\ users[o].username = r.body.username
                THEN Reply(c, r, 400, "Username already taken")
           ELSE Await(c, r)
  /\ UNCHANGED <<fixed, users, products, accounts>>

\* PUT /users/:id, findByIdAndUpdate and the answer; undefined keys of the
\* update are dropped, the unique index on username rejects a duplicate
PutUserWrite(c, fault) ==
  /\ Writing(c, "PUT /users/:id")
  /\ LET r == req[c]
         taken == /\ TruthyStr(r.body.username)
                  /\ DuplicateKey(r.id, r.body.username, Undefined)
     IN  IF fault \/ r.id = BadId
           THEN Catch(c, r, Error(fault, r.id)) /\ UNCHANGED users
         ELSE IF ~users[r.id].exists
           THEN Answer(c, r, 404, {}) /\ UNCHANGED users
         ELSE IF taken
           THEN Catch(c, r, "E11000") /\ UNCHANGED users
         ELSE /\ users' = IF TruthyStr(r.body.username)
                          THEN [users EXCEPT ![r.id].username = r.body.username]
                          ELSE users
              /\ Answer(c, r, 200, {r.id})
  /\ UNCHANGED <<fixed, products, accounts>>

\* DELETE /users/:id, up to findById and the self-protection check
DeleteUserCheck(c) ==
  /\ Handling(c, "DELETE /users/:id")
  /\ \E id \in ParamsOf("DELETE /users/:id"), body \in BodiesOf("DELETE /users/:id"), fault \in BOOLEAN :
       LET r == Started(c, id, body)
       IN  IF fault \/ r.id = BadId THEN Catch(c, r, Error(fault, r.id))
           ELSE IF ~users[r.id].exists THEN Answer(c, Looked(r), 404, {})
           ELSE IF IsSelf(r) THEN Answer(c, Looked(r), 400, {})
           ELSE Await(c, Looked(r))
  /\ UNCHANGED <<fixed, users, products, accounts>>

\* DELETE /users/:id, findByIdAndDelete and the answer
DeleteUserWrite(c, fault) ==
  /\ Writing(c, "DELETE /users/:id")
  /\ LET r == req[c]
     IN  IF fault THEN Catch(c, r, Error(fault, r.id)) /\ UNCHANGED users
         ELSE /\ users' = [users EXCEPT ![r.id] = NoRecord]
              /\ Answer(c, r, 200, {})
  /\ UNCHANGED <<fixed, products, accounts>>

\* PUT /users/:id/toggle-status, up to findById and the self-protection check
ToggleStatusCheck(c) ==
  /\ Handling(c, "PUT /users/:id/toggle-status")
  /\ \E id \in ParamsOf("PUT /users/:id/toggle-status"), body \in BodiesOf("PUT /users/:id/toggle-status"), fault \in BOOLEAN :
       LET r == Started(c, id, body)
       IN  IF fault \/ r.id = BadId THEN Catch(c, r, Error(fault, r.id))
           ELSE IF ~users[r.id].exists THEN Answer(c, Looked(r), 404, {})
           ELSE IF IsSelf(r) THEN Answer(c, Looked(r), 400, {})
           ELSE Await(c, [Looked(r) EXCEPT !.loaded = users[r.id].isActive])
  /\ UNCHANGED <<fixed, users, products, accounts>>

\* PUT /users/:id/toggle-status, user.isActive = !user.isActive; user.save()
\* (save() of a document that is no longer stored rejects)
ToggleStatusWrite(c, fault) ==
  /\ Writing(c, "PUT /users/:id/toggle-status")
  /\ LET r == req[c]
     IN  IF fault \/ ~users[r.id].exists
           THEN Catch(c, r, IF fault THEN "StoreError"
                            ELSE "DocumentNotFoundError") /\ UNCHANGED users
         ELSE /\ users' = [users EXCEPT ![r.id].isActive = ~r.loaded]
              /\ Answer(c, r, 200, {r.id})
  /\ UNCHANGED <<fixed, products, accounts>>

(***************************************************************************)
(* Products routes                                                         *)
(***************************************************************************)
\* Product.find({isActive: true, category}): the category is req.query.category
\* of GET /products, which may be absent, or req.params.category
CategoryOf(route) == IF route = "GET /products" THEN {Undefined, "books"}
                     ELSE {"books", "electronics"}
Matching(cat) == {p \in ProductIds : /\ products[p].exists /\ products[p].isActive
                                     /\ cat = Undefined \/ products[p].category = cat}

\* GET /products and GET /products/category/:category, on the default page
ListProducts(c) ==
  /\ \E route \in {"GET /products", "GET /products/category/:category"} :
       /\ Handling(c, route)
       /\ \E fault \in BOOLEAN, cat \in CategoryOf(route) :
            LET r == Started(c, Undefined, NoBody)
            IN  IF fault THEN Catch(c, r, Error(fault, r.id))
                ELSE Answer(c, r, 200, Matching(cat))
  /\ UNCHANGED <<fixed, users, products, accounts>>

\* GET /products/:id
GetProduct(c) ==
  /\ Handling(c, "GET /products/:id")
  /\ \E id \in ParamsOf("GET /products/:id"), body \in BodiesOf("GET /products/:id"), fault \in BOOLEAN :
       LET r == Started(c, id, body)
       IN  IF fault \/ r.id = BadId THEN Catch(c, r, Error(fault, r.id))
           ELSE IF ~products[r.id].exists \/ ~products[r.id].isActive
                THEN Answer(c, r, 404, {})
           ELSE Answer(c, r, 200, {r.id})
  /\ UNCHANGED <<fixed, users, products, accounts>>

\* POST /products: new Product({...req.body, createdBy}).save(), then
\* populate; stock takes the schema default 0 when the body has none
PostProduct(c) ==
  /\ Handling(c, "POST /products")
  /\ \E id \in ParamsOf("POST /products"), body \in BodiesOf("POST /products"),
        fault \in {"none", "save", "populate"} :
       LET r == Started(c, id, body)
           p == CHOOSE q \in ProductIds : ~products[q].exists
           doc == [exists |-> TRUE, price |-> r.body.price,
                   category |-> r.body.category,
                   stock |-> IF r.body.stock.kind = "num" THEN r.body.stock.n
                             ELSE 0,
                   isActive |-> TRUE, createdBy |-> r.user.userId]
       IN  IF ~productSchemaOk(r.body)
             THEN Answer(c, r, 400, {}) /\ UNCHANGED products
           ELSE IF ~productValidatorsOk(r.body)
             THEN Catch(c, r, "ValidationError") /\ UNCHANGED products
           ELSE IF fault = "save"
             THEN Catch(c, r, "StoreError") /\ UNCHANGED products
           ELSE /\ \E q \in ProductIds : ~products[q].exists
                /\ products' = [products EXCEPT ![p] = doc]
                /\ IF fault = "populate" THEN Catch(c, r, "StoreError")
                   ELSE Answer(c, r, 201, {})
  /\ UNCHANGED <<fixed, users, accounts>>

\* PUT /products/:id: findByIdAndUpdate(id, {...req.body, updatedAt},
\* {new: true, runValidators: true})
PutProduct_reactivates(c) ==
  /\ Handling(c, "PUT /products/:id")
  /\ \E id \in ParamsOf("PUT /products/:id"), body \in BodiesOf("PUT /products/:id"), fault \in BOOLEAN :
       LET r == Started(c, id, body)
       IN  IF ~productSchemaOk(r.body)
             THEN Answer(c, r, 400, {}) /\ UNCHANGED products
           ELSE IF ~productValidatorsOk(r.body)
             THEN Catch(c, r, "ValidationError") /\ UNCHANGED products
           ELSE IF fault \/ r.id = BadId
             THEN Catch(c, r, Error(fault, r.id)) /\ UNCHANGED products
           ELSE IF ~products[r.id].exists
             THEN Answer(c, r, 404, {}) /\ UNCHANGED products
           ELSE /\ products' = [products EXCEPT
                     ![r.id].isActive = TRUE,
                     ![r.id].price = r.body.price,
                     ![r.id].category = r.body.category,
                     ![r.id].stock = IF r.body.stock.kind = "num"
                                     THEN r.body.stock.n ELSE @]
                /\ Answer(c, r, 200, {})
  /\ UNCHANGED <<fixed, users, accounts>>

PutProduct_takesOwnership(c) ==
  /\ Handling(c, "PUT /products/:id")
  /\ \E id \in ParamsOf("PUT /products/:id"), body \in BodiesOf("PUT /products/:id"), fault \in BOOLEAN :
       LET r == Started(c, id, body)
       IN  IF ~productSchemaOk(r.body)
             THEN Answer(c, r, 400, {}) /\ UNCHANGED products
           ELSE IF ~productValidatorsOk(r.body)
             THEN Catch(c, r, "ValidationError") /\ UNCHANGED products
           ELSE IF fault \/ r.id = BadId
             THEN Catch(c, r, Error(fault, r.id)) /\ UNCHANGED products
           ELSE IF ~products[r.id].exists
             THEN Answer(c, r, 404, {}) /\ UNCHANGED products
           ELSE /\ products' = [products EXCEPT
                     ![r.id].createdBy = r.user.userId,
                     ![r.id].price = r.body.price,
                     ![r.id].category = r.body.category,
                     ![r.id].stock = IF r.body.stock.kind = "num"
                                     THEN r.body.stock.n ELSE @]
                /\ Answer(c, r, 200, {})
  /\ UNCHANGED <<fixed, users, accounts>>

PutProduct(c) ==
  /\ Handling(c, "PUT /products/:id")
  /\ \E id \in ParamsOf("PUT /products/:id"), body \in BodiesOf("PUT /products/:id"), fault \in BOOLEAN :
       LET r == Started(c, id, body)
       IN  IF ~productSchemaOk(r.body)
             THEN Answer(c, r, 400, {}) /\ UNCHANGED products
           ELSE IF ~productValidatorsOk(r.body)
             THEN Catch(c, r, "ValidationError") /\ UNCHANGED products
           ELSE IF fault \/ r.id = BadId
             THEN Catch(c, r, Error(fault, r.id)) /\ UNCHANGED products
           ELSE IF ~products[r.id].exists
             THEN Answer(c, r, 404, {}) /\ UNCHANGED products
           ELSE /\ products' = [products EXCEPT
                     ![r.id].price = r.body.price,
                     ![r.id].category = r.body.category,
                     ![r.id].stock = IF r.body.stock.kind = "num"
                                     THEN r.body.stock.n ELSE @]
                /\ Answer(c, r, 200, {})
  /\ UNCHANGED <<fixed, users, accounts>>

\* DELETE /products/:id (soft delete): findByIdAndUpdate(id, {isActive: false})
DeleteProduct_hard(c) ==
  /\ Handling(c, "DELETE /products/:id")
  /\ \E id \in ParamsOf("DELETE /products/:id"), body \in BodiesOf("DELETE /products/:id"), fault \in BOOLEAN :
       LET r == Started(c, id, body)
       IN  IF fault \/ r.id = BadId
             THEN Catch(c, r, Error(fault, r.id)) /\ UNCHANGED products
           ELSE IF ~products[r.id].exists
             THEN Answer(c, r, 404, {}) /\ UNCHANGED products
           ELSE /\ products' = [products EXCEPT ![r.id] = NoProduct]
                /\ Answer(c, r, 200, {})
  /\ UNCHANGED <<fixed, users, accounts>>

DeleteProduct(c) ==
  /\ Handling(c, "DELETE /products/:id")
  /\ \E id \in ParamsOf("DELETE /products/:id"), body \in BodiesOf("DELETE /products/:id"), fault \in BOOLEAN :
       LET r == Started(c, id, body)
       IN  IF fault \/ r.id = BadId
             THEN Catch(c, r, Error(fault, r.id)) /\ UNCHANGED products
           ELSE IF ~products[r.id].exists
             THEN Answer(c, r, 404, {}) /\ UNCHANGED products
           ELSE /\ products' = [products EXCEPT ![r.id].isActive = FALSE]
                /\ Answer(c, r, 200, {})
  /\ UNCHANGED <<fixed, users, accounts>>

(***************************************************************************)
(* Registration (routes/auth.js): validate, look for a holder of the       *)
(* username or the email, then insert; the insert runs against the unique  *)
(* indexes, and a duplicate key is answered as "already taken".            *)
(***************************************************************************)
RegisterCheck(c) ==
  /\ Handling(c, "POST /auth/register")
  /\ \E body \in BodiesOf("POST /auth/register") :
       LET r == Started(c, Undefined, body)
       IN  IF ~registerSchemaOk(r.body)
             THEN Reply(c, r, 400, "Validation failed")
           ELSE IF \E o \in Existing : \/ users[o].username = r.body.username
                                       \/ users[o].email = r.body.email
             THEN Reply(c, r, 400, "already taken")
           ELSE Await(c, r)
  /\ UNCHANGED <<fixed, users, products, accounts>>

RegisterWrite(c) ==
  /\ Writing(c, "POST /auth/register")
  /\ LET r == req[c]
         new == CHOOSE q \in UserIds :
                  ~users[q].exists /\ accounts[q].role = Undefined
     IN  IF DuplicateKey(Undefined, r.body.username, r.body.email)
           THEN /\ Reply(c, [r EXCEPT !.threw = "E11000"], 400, "already taken")
                /\ UNCHANGED <<users, accounts>>
         ELSE /\ \E q \in UserIds : ~users[q].exists /\ accounts[q].role = Undefined
              /\ users' = [users EXCEPT ![new] =
                             Member(r.body.username, r.body.email, "user")]
              /\ accounts' = [accounts EXCEPT ![new] =
                                [role |-> "user", email |-> r.body.email]]
              /\ Answer(c, r, 201, {new})
  /\ UNCHANGED <<fixed, products>>

\* the answer has been sent: the request is over
Close(c) ==
  /\ req[c].pc = "done"
  /\ req' = [req EXCEPT ![c] = Idle]
  /\ UNCHANGED <<fixed, users, products, accounts>>

(***************************************************************************)
(* Specifications                                                          *)
(***************************************************************************)
ApiEnv == [JWT_SECRET |-> "s1", JWT_EXPIRE |-> Undef, APP_NAME |-> Undefined]

\* nothing has been run on the docker host, in the AWS account or as a list query
ContainerNames == {"mongodb", "backend", "frontend"}
NoDocker == [pc |-> "shell", cmd |-> "none", wasUp |-> FALSE, network |-> FALSE,
             containers |-> [n \in ContainerNames |-> "absent"], said |-> FALSE]
NoAws    == [pc |-> "shell", on |-> "none", cmd |-> "none", exit |-> 0,
             steps |-> <<>>, printed |-> FALSE, keyPair |-> FALSE,
             pem |-> "none", mode400 |-> FALSE, asRoot |-> FALSE,
             infrastructure |-> "absent", instances |-> "absent"]
NoAnswer == [status |-> 0, items |-> 0, current |-> 0, pages |-> 0, total |-> 0]
NoPaging == [pc |-> "none", page |-> Undef, limit |-> Undef, matches |-> 0,
             res |-> NoAnswer]

\* the parts of the state the specifications of the API leave alone
Elsewhere == peer = ApiEnv /\ docker = NoDocker /\ aws = NoAws /\ paging = NoPaging

Init ==
  /\ env = ApiEnv
  /\ now = 0
  /\ token = InvalidTokenHere /\ made = NotMade /\ result = NoResult
  /\ users \in InitUsers
  /\ products = InitProducts
  /\ accounts = [u \in UserIds |-> [role |-> users[u].role, email |-> EmailOf[u]]]
  /\ req = [c \in Clients |-> Idle]
  /\ header = NoHeader /\ parsed = NotParsed /\ boot = Serving
  /\ Elsewhere

Next ==
  \/ \E c \in Clients, route \in Routes :
       \E how \in CredsFor(route) :
         \E u \in SubjectsFor(how), t \in InstantsFor(how),
            pos \in PositionsFor(how), sym \in SymsFor(how) :
           Request(c, route, how, u, t, pos, sym)
  \/ \E c \in Clients : GetUsers(c)
  \/ \E c \in Clients : GetUser(c)
  \/ \E c \in Clients : PutUserCheck(c)
  \/ \E c \in Clients, fault \in BOOLEAN : PutUserWrite(c, fault)
  \/ \E c \in Clients : DeleteUserCheck(c)
  \/ \E c \in Clients, fault \in BOOLEAN : DeleteUserWrite(c, fault)
  \/ \E c \in Clients : ToggleStatusCheck(c)
  \/ \E c \in Clients, fault \in BOOLEAN : ToggleStatusWrite(c, fault)
  \/ \E c \in Clients : ListProducts(c)
  \/ \E c \in Clients : GetProduct(c)
  \/ \E c \in Clients : PostProduct(c)
  \/ \E c \in Clients : PutProduct(c)
  \/ \E c \in Clients : DeleteProduct(c)
  \/ \E c \in Clients : Close(c)

Spec == Init /\ [][Next]_vars

InitJwt ==
  /\ env \in Envs
  /\ now = 0
  /\ token = InvalidTokenHere /\ made = NotMade /\ result = NoResult
  /\ users = [u \in UserIds |-> NoRecord]
  /\ products = [p \in ProductIds |-> NoProduct]
  /\ accounts = [u \in UserIds |-> [role |-> Undefined, email |-> Undefined]]
  /\ req = [c \in Clients |-> Idle]
  /\ header = NoHeader /\ parsed = NotParsed /\ boot = Serving
  /\ Elsewhere

NextJwt ==
  \/ \E u \in JwtUserIds, o \in Options : GenerateToken(u, o)
  \/ \E u \in JwtUserIds : GenerateRefreshToken(u)
  \/ \E pos \in 1..SigLen, sym \in FlipSyms : TamperSignature(pos, sym)
  \/ VerifyToken
  \/ IsTokenExpired
  \/ PresentBearer
  \/ PresentRefresh
  \/ TickJwt

SpecJwt == InitJwt /\ [][NextJwt]_vars

(***************************************************************************)
(* SpecHeader: extractTokenFromHeader applied to drawn header values       *)
(***************************************************************************)
HeaderWords == {Word("Bearer"), Word("bearer"), Word("Basic"), Word(""),
                TokWord(generateToken("u1", Opt("admin", "a@x.com", Undef,
                                                Undefined), ApiEnv, 0))}
MaxPieces == 3

\* no header, or a string: a string splits at its spaces into one piece or
\* more (the empty string into one empty piece, ' ' into two)
Headers == {NoHeader} \cup
           {Header(ps) : ps \in UNION {[1..n -> HeaderWords] : n \in 1..MaxPieces}}

ExtractTokenFromHeader ==
  /\ parsed = NotParsed
  /\ parsed' = extractTokenFromHeader(header)
  /\ UNCHANGED <<env, now, jwtVars, users, products, accounts, req, header, boot, opsVars>>

InitHeader ==
  /\ env = ApiEnv
  /\ now = 0
  /\ token = InvalidTokenHere /\ made = NotMade /\ result = NoResult
  /\ users = [u \in UserIds |-> NoRecord]
  /\ products = [p \in ProductIds |-> NoProduct]
  /\ accounts = [u \in UserIds |-> [role |-> Undefined, email |-> Undefined]]
  /\ req = [c \in Clients |-> Idle]
  /\ header \in Headers /\ parsed = NotParsed /\ boot = Serving
  /\ Elsewhere

NextHeader == ExtractTokenFromHeader

SpecHeader == InitHeader /\ [][NextHeader]_vars

(***************************************************************************)
(* SpecStart: start.js from launch to require('./server.js') or exit, and  *)
(* the server signing and verifying once it is loaded.  env.JWT_SECRET is  *)
(* process.env.JWT_SECRET, boot.uri is process.env.MONGODB_URI.            *)
(***************************************************************************)
SecretValues == {Undefined, "", "s1"}
UriValues    == {Undefined, "mongodb://db"}
EnvFiles     == [JWT_SECRET : SecretValues, MONGODB_URI : UriValues]
NoEnvFile    == [JWT_SECRET |-> Undefined, MONGODB_URI |-> Undefined]

\* the launches: whether __dirname/.env exists and what it holds, whether
\* the process was launched from __dirname (dotenv reads `.env` of the
\* working directory), and the variables already in the environment
Launches ==
  {[pc |-> "launched", exit |-> 0, envFile |-> x, inCwd |-> d, file |-> f,
    uri |-> u, loaded |-> FALSE] :
      x \in BOOLEAN, d \in BOOLEAN, f \in EnvFiles, u \in UriValues}

\* requiredEnvVars.filter(envVar => !process.env[envVar])
missingEnvVars_unsetOnly(secret, uri) ==
  {v \in {"JWT_SECRET", "MONGODB_URI"} :
     (IF v = "JWT_SECRET" THEN secret ELSE uri) = Undefined}

missingEnvVars(secret, uri) ==
  {v \in {"JWT_SECRET", "MONGODB_URI"} :
     ~TruthyStr(IF v = "JWT_SECRET" THEN secret ELSE uri)}

\* if (!fs.existsSync(envPath)) process.exit(1)
CheckEnvFile ==
  /\ boot.pc = "launched"
  /\ boot' = IF ~boot.envFile THEN [boot EXCEPT !.pc = "exited", !.exit = 1]
             ELSE [boot EXCEPT !.pc = "dotenv"]
  /\ UNCHANGED <<env, now, jwtVars, users, products, accounts, req, header, parsed, opsVars>>

\* require('dotenv').config(): a variable of the file is set unless the
\* environment already has the key, whatever its value
LoadDotenv ==
  /\ boot.pc = "dotenv"
  /\ LET read == IF boot.inCwd THEN boot.file ELSE NoEnvFile
     IN  /\ env' = [env EXCEPT !.JWT_SECRET =
                      IF env.JWT_SECRET = Undefined THEN read.JWT_SECRET ELSE @]
         /\ boot' = [boot EXCEPT !.pc = "required",
                                 !.uri = IF @ = Undefined THEN read.MONGODB_URI
                                         ELSE @]
  /\ UNCHANGED <<now, jwtVars, users, products, accounts, req, header, parsed, opsVars>>

\* if (missingEnvVars.length > 0) process.exit(1)
CheckRequired ==
  /\ boot.pc = "required"
  /\ boot' = IF missingEnvVars(env.JWT_SECRET, boot.uri) # {}
             THEN [boot EXCEPT !.pc = "exited", !.exit = 1]
             ELSE [boot EXCEPT !.pc = "checked"]
  /\ UNCHANGED <<env, now, jwtVars, users, products, accounts, req, header, parsed, opsVars>>

\* require('./server.js')
RequireServer ==
  /\ boot.pc = "checked"
  /\ boot' = [boot EXCEPT !.pc = "serving", !.loaded = TRUE]
  /\ UNCHANGED <<env, now, jwtVars, users, products, accounts, req, header, parsed, opsVars>>

\* the loaded server issues a token and verifies the one it holds
ServeSign(u) == boot.loaded /\ GenerateToken(u, Opt("user", EmailOf[u], Undef, Undefined))
ServeVerify  == boot.loaded /\ VerifyToken

InitStart ==
  /\ \E s \in SecretValues :
       env = [JWT_SECRET |-> s, JWT_EXPIRE |-> Undef, APP_NAME |-> Undefined]
  /\ now = 0
  /\ token = InvalidTokenHere /\ made = NotMade /\ result = NoResult
  /\ users = [u \in UserIds |-> NoRecord]
  /\ products = [p \in ProductIds |-> NoProduct]
  /\ accounts = [u \in UserIds |-> [role |-> Undefined, email |-> Undefined]]
  /\ req = [c \in Clients |-> Idle]
  /\ header = NoHeader /\ parsed = NotParsed
  /\ boot \in Launches
  /\ Elsewhere

NextStart ==
  \/ CheckEnvFile
  \/ LoadDotenv
  \/ CheckRequired
  \/ RequireServer
  \/ \E u \in JwtUserIds : ServeSign(u)
  \/ ServeVerify

SpecStart == InitStart /\ [][NextStart]_vars

(***************************************************************************)
(* SpecRace: two clients whose PUT /users/:id and registrations interleave *)
(* at every await                                                          *)
(***************************************************************************)
RaceClients == {"c1", "c2"}

InitRace ==
  /\ env = ApiEnv
  /\ now = 0
  /\ token = InvalidTokenHere /\ made = NotMade /\ result = NoResult
  /\ users \in InitUsers \cup
              {[u \in UserIds |-> IF u = "u1" THEN SeedAdmin ELSE NoRecord]}
  /\ products = InitProducts
  /\ accounts = [u \in UserIds |-> [role |-> users[u].role, email |-> EmailOf[u]]]
  /\ req = [c \in RaceClients |-> Idle]
  /\ header = NoHeader /\ parsed = NotParsed /\ boot = Serving
  /\ Elsewhere

NextRace ==
  \/ \E c \in RaceClients, u \in {"u1", "u2"} :
       Request(c, "PUT /users/:id", "access", u, 0, 1, 0)
  \/ \E c \in RaceClients :
       Request(c, "POST /auth/register", "none", "u1", 0, 1, 0)
  \/ \E c \in RaceClients : PutUserCheck(c)
  \/ \E c \in RaceClients, fault \in BOOLEAN : PutUserWrite(c, fault)
  \/ \E c \in RaceClients : RegisterCheck(c)
  \/ \E c \in RaceClients : RegisterWrite(c)
  \/ \E c \in RaceClients : Close(c)

SpecRace == InitRace /\ [][NextRace]_vars

(***************************************************************************)
(* SpecAdmins: two clients holding admin tokens whose DELETE /users/:id    *)
(* and toggle-status requests interleave at every await                    *)
(***************************************************************************)
NextAdmins ==
  \/ \E c \in RaceClients, route \in {"DELETE /users/:id",
                                       "PUT /users/:id/toggle-status"},
        u \in {"u1", "u2"} :
       Request(c, route, "access", u, 0, 1, 0)
  \/ \E c \in RaceClients : DeleteUserCheck(c)
  \/ \E c \in RaceClients, fault \in BOOLEAN : DeleteUserWrite(c, fault)
  \/ \E c \in RaceClients : ToggleStatusCheck(c)
  \/ \E c \in RaceClients, fault \in BOOLEAN : ToggleStatusWrite(c, fault)
  \/ \E c \in RaceClients : Close(c)

SpecAdmins == InitRace /\ [][NextAdmins]_vars

(***************************************************************************)
(* SpecProducts: the products routes alone, the write routes called with   *)
(* the tokens of the accounts                                              *)
(***************************************************************************)
NextProducts ==
  \/ \E c \in Clients, route \in ProductRoutes :
       \E how \in IF Chain(route) = <<>> THEN {"none"} ELSE {"access"},
          u \in {"u1", "u2"} :
         Request(c, route, how, u, 0, 1, 0)
  \/ \E c \in Clients : ListProducts(c)
  \/ \E c \in Clients : GetProduct(c)
  \/ \E c \in Clients : PostProduct(c)
  \/ \E c \in Clients : PutProduct(c)
  \/ \E c \in Clients : DeleteProduct(c)
  \/ \E c \in Clients : Close(c)

SpecProducts == Init /\ [][NextProducts]_vars

NextForge ==
  \/ \E f \in Forgeries : ForgeToken(f)
  \/ TakeInvalidToken
  \/ \E pos \in {1, SigLen} : TamperSignature(pos, 0)
  \/ VerifyToken
  \/ IsTokenExpired
  \/ TickJwt

SpecForge == InitJwt /\ [][NextForge]_vars

(***************************************************************************)
(* SpecFleet: two instances of the server behind a load balancer, started  *)
(* with the same JWT_SECRET.  The first (env) issues, the second (peer)    *)
(* verifies; they share the clock and nothing else.                        *)
(***************************************************************************)
PeerVerifyToken ==
  /\ made.fn # "none"
  /\ LET r == verifyToken(token, peer, now)
     IN  result' = [op |-> "peer.verifyToken", ok |-> r.ok, payload |-> r.payload,
                    status |-> 0]
  /\ UNCHANGED <<env, now, token, made, apiVars>>

InitFleet ==
  /\ env \in Envs
  /\ peer \in {e \in Envs : e.JWT_SECRET = env.JWT_SECRET}
  /\ now = 0
  /\ token = InvalidTokenHere /\ made = NotMade /\ result = NoResult
  /\ users = [u \in UserIds |-> NoRecord]
  /\ products = [p \in ProductIds |-> NoProduct]
  /\ accounts = [u \in UserIds |-> [role |-> Undefined, email |-> Undefined]]
  /\ req = [c \in Clients |-> Idle]
  /\ header = NoHeader /\ parsed = NotParsed /\ boot = Serving
  /\ docker = NoDocker /\ aws = NoAws /\ paging = NoPaging

NextFleet ==
  \/ \E u \in JwtUserIds, o \in Options : GenerateToken(u, o)
  \/ \E u \in JwtUserIds : GenerateRefreshToken(u)
  \/ VerifyToken
  \/ PeerVerifyToken
  \/ TickJwt

SpecFleet == InitFleet /\ [][NextFleet]_vars

(***************************************************************************)
(* SpecDocker: manage-containers.sh run from a shell, one command at a     *)
(* time, against the docker host.  A container is absent, running or       *)
(* exited; the script has no `set -e`, so a failing docker command does    *)
(* not stop it.                                                            *)
(***************************************************************************)
Commands == {"start", "stop", "restart", "clean"}
AllUp == \A n \in ContainerNames : docker.containers[n] = "running"
dockerVars == <<env, now, jwtVars, users, products, accounts, req, header,
                parsed, boot, peer, aws, paging>>

\* ./manage-containers.sh <cmd>: the case arm entered
Invoke(cmd) ==
  /\ docker.pc = "shell"
  /\ docker' = [docker EXCEPT !.cmd = cmd, !.wasUp = AllUp, !.said = FALSE,
                              !.pc = CASE cmd = "start" -> "network"
                                       [] cmd = "stop" -> "stop"
                                       [] cmd = "restart" -> "stop"
                                       [] cmd = "clean" -> "clean"]
  /\ UNCHANGED dockerVars

\* if ! docker network ls | grep -q $NETWORK_NAME; then docker network create
CreateNetwork ==
  /\ docker.pc = "network"
  /\ docker' = [docker EXCEPT !.network = TRUE, !.pc = "mongodb"]
  /\ UNCHANGED dockerVars

\* docker run -d --name <name> ...: refused when a container of that name
\* exists, running or exited; otherwise the container runs, or the command
\* fails (image missing, port taken, env file missing) and leaves none.
\* Either way the script goes on to its next line.
DockerRun(name, works) ==
  /\ docker.pc = name
  /\ docker' = [docker EXCEPT
                  !.containers[name] = IF @ # "absent" THEN @
                                       ELSE IF works THEN "running" ELSE "absent",
                  !.pc = CASE name = "mongodb" -> "backend"
                           [] name = "backend" -> "frontend"
                           [] name = "frontend" -> "report"]
  /\ UNCHANGED dockerVars

\* echo "All containers started successfully!"
ReportStarted ==
  /\ docker.pc = "report"
  /\ docker' = [docker EXCEPT !.said = TRUE, !.pc = "shell"]
  /\ UNCHANGED dockerVars

\* docker stop frontend backend mongodb 2>/dev/null || true; under `restart`
\* the script then runs `$0 start`
DockerStop ==
  /\ docker.pc = "stop"
  /\ docker' = [docker EXCEPT
                  !.containers = [n \in ContainerNames |->
                                    IF @[n] = "running" THEN "exited" ELSE @[n]],
                  !.pc = IF docker.cmd = "restart" THEN "network" ELSE "shell"]
  /\ UNCHANGED dockerVars

\* docker stop ...; docker rm ...; docker network rm ...
DockerClean ==
  /\ docker.pc = "clean"
  /\ docker' = [docker EXCEPT
                  !.containers = [n \in ContainerNames |-> "absent"],
                  !.network = FALSE, !.pc = "shell"]
  /\ UNCHANGED dockerVars

InitDocker ==
  /\ env = ApiEnv
  /\ now = 0
  /\ token = InvalidTokenHere /\ made = NotMade /\ result = NoResult
  /\ users = [u \in UserIds |-> NoRecord]
  /\ products = [p \in ProductIds |-> NoProduct]
  /\ accounts = [u \in UserIds |-> [role |-> Undefined, email |-> Undefined]]
  /\ req = [c \in Clients |-> Idle]
  /\ header = NoHeader /\ parsed = NotParsed /\ boot = Serving
  /\ Elsewhere

NextDocker ==
  \/ \E cmd \in Commands : Invoke(cmd)
  \/ CreateNetwork
  \/ \E name \in ContainerNames, works \in BOOLEAN : DockerRun(name, works)
  \/ ReportStarted
  \/ DockerStop
  \/ DockerClean

SpecDocker == InitDocker /\ [][NextDocker]_vars

(***************************************************************************)
(* SpecDeploy: deploy.sh run from a shell against an AWS account.  Every   *)
(* aws command either succeeds or exits non-zero; under `set -e` a failing *)
(* command outside an `if` condition ends the script.  aws.keyPair is the  *)
(* key pair in EC2, aws.pem the local file mongodb-app-key.pem ("none",    *)
(* the "old" key material, "new" material, or "empty").                    *)
(***************************************************************************)
deploy == <<"check_aws_cli", "create_key_pair", "deploy_infrastructure",
            "deploy_instances", "get_outputs">>
deployVars == <<env, now, jwtVars, users, products, accounts, req, header,
                parsed, boot, peer, docker, paging>>

\* the script ends: a non-zero status under set -e, or the end of the function
Exit(a, status) == [a EXCEPT !.pc = "shell", !.on = "none", !.exit = status]
Passed(a, step) == [a EXCEPT !.steps = Append(@, step)]

\* case "${1:-deploy}" in deploy) deploy ;; cleanup) cleanup ;;
RunScript(cmd) ==
  /\ aws.pc = "shell"
  /\ aws' = [aws EXCEPT !.cmd = cmd, !.exit = 0, !.steps = <<>>,
                        !.printed = FALSE,
                        !.pc = IF cmd = "deploy" THEN "check_aws_cli" ELSE "delete",
                        !.on = IF cmd = "deploy" THEN "none" ELSE "instances"]
  /\ UNCHANGED deployVars

\* check_aws_cli: aws sts get-caller-identity, exit 1 when it fails
CheckAwsCli(ok) ==
  /\ aws.pc = "check_aws_cli"
  /\ aws' = IF ok THEN [Passed(aws, "check_aws_cli") EXCEPT !.pc = "create_key_pair"]
            ELSE Exit(aws, 1)
  /\ UNCHANGED deployVars

\* create_key_pair: if describe-key-pairs exits 0 the pair is kept; on any
\* other status the shell opens mongodb-app-key.pem for writing (truncating
\* it, or failing when the file is read-only and the user is not root), then
\* runs create-key-pair, which EC2 refuses for a name in use; then chmod 400
CreateKeyPair(describes, creates) ==
  /\ aws.pc = "create_key_pair"
  /\ aws' = IF aws.keyPair /\ describes
              THEN [Passed(aws, "create_key_pair") EXCEPT !.pc = "create",
                                                          !.on = "infrastructure"]
            ELSE IF aws.pem # "none" /\ aws.mode400 /\ ~aws.asRoot
              THEN Exit(aws, 1)
            ELSE IF aws.keyPair \/ ~creates
              THEN Exit([aws EXCEPT !.pem = "empty"], 1)
            ELSE [Passed(aws, "create_key_pair") EXCEPT
                    !.keyPair = TRUE, !.pem = "new", !.mode400 = TRUE,
                    !.pc = "create", !.on = "infrastructure"]
  /\ UNCHANGED deployVars

\* aws cloudformation create-stack: refused when a stack of that name exists
CreateStack(ok) ==
  /\ aws.pc = "create"
  /\ aws' = IF ok /\ aws[aws.on] = "absent"
              THEN [aws EXCEPT ![aws.on] = "creating", !.pc = "wait"]
            ELSE Exit(aws, 1)
  /\ UNCHANGED deployVars

\* aws cloudformation wait stack-create-complete: returns 0 once the stack is
\* CREATE_COMPLETE, non-zero when the creation failed
WaitCreateComplete(ok) ==
  /\ aws.pc = "wait"
  /\ aws' = IF ~ok THEN Exit([aws EXCEPT ![aws.on] = "failed"], 1)
            ELSE IF aws.on = "infrastructure"
              THEN [Passed(aws, "deploy_infrastructure") EXCEPT
                      !.infrastructure = "complete",
                      !.pc = "create", !.on = "instances"]
            ELSE [Passed(aws, "deploy_instances") EXCEPT
                    !.instances = "complete",
                    !.pc = "get_outputs", !.on = "none"]
  /\ UNCHANGED deployVars

\* get_outputs: two describe-stacks in command substitutions, then the banner
GetOutputs(ok) ==
  /\ aws.pc = "get_outputs"
  /\ aws' = IF ok THEN Exit([Passed(aws, "get_outputs") EXCEPT !.printed = TRUE], 0)
            ELSE Exit(aws, 1)
  /\ UNCHANGED deployVars

\* cleanup: aws cloudformation delete-stack (no error for a stack that does
\* not exist)
DeleteStack(ok) ==
  /\ aws.pc = "delete"
  /\ aws' = IF ok THEN [aws EXCEPT ![aws.on] = IF @ = "absent" THEN @ ELSE "deleting",
                                   !.pc = "waitDelete"]
            ELSE Exit(aws, 1)
  /\ UNCHANGED deployVars

\* cleanup: aws cloudformation wait stack-delete-complete
WaitDeleteComplete(ok) ==
  /\ aws.pc = "waitDelete"
  /\ aws' = IF ~ok THEN Exit([aws EXCEPT ![aws.on] = IF @ = "absent" THEN @
                                                      ELSE "deleteFailed"], 1)
            ELSE IF aws.on = "instances"
              THEN [aws EXCEPT !.instances = "absent", !.pc = "delete",
                               !.on = "infrastructure"]
            ELSE Exit([aws EXCEPT !.infrastructure = "absent"], 0)
  /\ UNCHANGED deployVars

\* the accounts and working directories the script is started in
InitDeploy ==
  /\ env = ApiEnv
  /\ now = 0
  /\ token = InvalidTokenHere /\ made = NotMade /\ result = NoResult
  /\ users = [u \in UserIds |-> NoRecord]
  /\ products = [p \in ProductIds |-> NoProduct]
  /\ accounts = [u \in UserIds |-> [role |-> Undefined, email |-> Undefined]]
  /\ req = [c \in Clients |-> Idle]
  /\ header = NoHeader /\ parsed = NotParsed /\ boot = Serving
  /\ peer = ApiEnv /\ docker = NoDocker /\ paging = NoPaging
  /\ \E k \in BOOLEAN, f \in {"none", "old"}, m \in BOOLEAN, r \in BOOLEAN :
       /\ f = "none" => ~m
       /\ aws = [NoAws EXCEPT !.keyPair = k, !.pem = f, !.mode400 = m,
                              !.asRoot = r]

NextDeploy ==
  \/ \E cmd \in {"deploy", "cleanup"} : RunScript(cmd)
  \/ \E ok \in BOOLEAN : CheckAwsCli(ok)
  \/ \E describes \in BOOLEAN, creates \in BOOLEAN : CreateKeyPair(describes, creates)
  \/ \E ok \in BOOLEAN : CreateStack(ok)
  \/ \E ok \in BOOLEAN : WaitCreateComplete(ok)
  \/ \E ok \in BOOLEAN : GetOutputs(ok)
  \/ \E ok \in BOOLEAN : DeleteStack(ok)
  \/ \E ok \in BOOLEAN : WaitDeleteComplete(ok)

SpecDeploy == InitDeploy /\ [][NextDeploy]_vars

(***************************************************************************)
(* SpecPaging: the pagination of GET /users, GET /products and GET         *)
(* /products/category/:category, which is the same code in all three,      *)
(* applied to drawn query values over a collection with `matches` records  *)
(* passing the filter.  A query value is absent (Undef), a text parseInt    *)
(* cannot read (Str) or the decimal text of an integer (Num).              *)
(***************************************************************************)
MaxPage == 3
MaxMatches == 5
DefaultPage == 1
DefaultLimit == 10

QueryValues == {Undef, Str("abc")} \cup {Num(n) : n \in (0 - 2)..MaxPage}

\* parseInt(q) || d: NaN and 0 are falsy
parseIntOr(q, d) == IF q.kind = "num" /\ q.n # 0 THEN q.n ELSE d

\* Math.ceil(total / limit) for total >= 0 and limit # 0
ceilDiv(total, limit) == IF limit > 0 THEN (total + limit - 1) \div limit
                         ELSE 0 - (total \div (0 - limit))

Min(a, b) == IF a <= b THEN a ELSE b
Max(a, b) == IF a >= b THEN a ELSE b

\* find(filter).skip(skip).limit(limit) over `matches` records: the server
\* rejects a negative skip; the driver sends a negative limit as its
\* absolute value
found(matches, skip, limit) ==
  Min(IF limit < 0 THEN 0 - limit ELSE limit, Max(0, matches - skip))

\* the handler from `const page` to res.json / the catch
paginate(pageQ, limitQ, matches) ==
  LET page  == parseIntOr(pageQ, DefaultPage)
      limit == parseIntOr(limitQ, DefaultLimit)
      skip  == (page - 1) * limit
  IN  IF skip < 0 THEN [NoAnswer EXCEPT !.status = 500]
      ELSE [status |-> 200, items |-> found(matches, skip, limit),
            current |-> page, pages |-> ceilDiv(matches, limit),
            total |-> matches]

pagingVars == <<env, now, jwtVars, users, products, accounts, req, header,
                parsed, boot, peer, docker, aws>>

ListPage ==
  /\ paging.pc = "asked"
  /\ paging' = [paging EXCEPT !.pc = "answered",
                              !.res = paginate(paging.page, paging.limit,
                                               paging.matches)]
  /\ UNCHANGED pagingVars

InitPaging ==
  /\ env = ApiEnv
  /\ now = 0
  /\ token = InvalidTokenHere /\ made = NotMade /\ result = NoResult
  /\ users = [u \in UserIds |-> NoRecord]
  /\ products = [p \in ProductIds |-> NoProduct]
  /\ accounts = [u \in UserIds |-> [role |-> Undefined, email |-> Undefined]]
  /\ req = [c \in Clients |-> Idle]
  /\ header = NoHeader /\ parsed = NotParsed /\ boot = Serving
  /\ peer = ApiEnv /\ docker = NoDocker /\ aws = NoAws
  /\ \E pageQ \in QueryValues, limitQ \in QueryValues, n \in 0..MaxMatches :
       paging = [NoPaging EXCEPT !.pc = "asked", !.page = pageQ,
                                 !.limit = limitQ, !.matches = n]

NextPaging == ListPage

SpecPaging == InitPaging /\ [][NextPaging]_vars

TypeOK ==
  /\ env \in Envs
  /\ now \in Instants
  /\ \A c \in Clients : req[c].pc \in {"idle", "handler", "write", "done"}

(***************************************************************************)
(* Properties                                                              *)
(***************************************************************************)
AdminRoutes == {"GET /users", "DELETE /users/:id", "PUT /users/:id/toggle-status",
                "POST /products", "PUT /products/:id", "DELETE /products/:id"}
MutatingRoutes == {"PUT /users/:id", "DELETE /users/:id",
                   "PUT /users/:id/toggle-status", "POST /products",
                   "PUT /products/:id", "DELETE /products/:id"}
ProductReads == {"GET /products", "GET /products/:id",
                 "GET /products/category/:category"}
SelfRoutes == {"DELETE /users/:id", "PUT /users/:id/toggle-status"}
Answered(r) == r.pc = "done"

\* C1 (as claimed): on GET and PUT /users/:id a record is returned or
\* modified only for its owner or an admin, every request of a non-admin on
\* another user's id is answered 403, and a non-admin's PUT on their own id
\* with a valid body is answered 200.
C1_OwnershipRule ==
  \A c \in Clients :
    LET r == req[c]
    IN  (Answered(r) /\ r.handled
           /\ r.route \in {"GET /users/:id", "PUT /users/:id"}) =>
          /\ r.disclosed # {} => MayAct(r)
          /\ ~MayAct(r) => r.status = 403
          /\ (r.route = "PUT /users/:id" /\ r.user.role # "admin"
                /\ r.user.userId = r.id /\ updateUserSchemaOk(r.body))
               => r.status = 200

\* C2 (as claimed): an admin's DELETE /users/:id or toggle-status on their
\* own id is always answered 400.
C2_SelfAlways400 ==
  \A c \in Clients :
    LET r == req[c]
    IN  (Answered(r) /\ r.handled /\ r.route \in SelfRoutes
           /\ r.user.userId = r.id) => r.status = 400

\* C2 (amended): an admin's DELETE /users/:id or toggle-status on their own
\* id never reaches the delete or the save; it is answered 400 exactly when
\* the lookup found the admin's record, 404 when the record no longer
\* exists, and 500 when the lookup itself failed.
C2_SelfProtection ==
  \A c \in Clients :
    LET r == req[c]
    IN  (r.handled /\ r.route \in SelfRoutes /\ r.user.userId = r.id) =>
          /\ r.pc # "write"
          /\ Answered(r) => /\ r.status \in {400, 404, 500}
                            /\ r.status = 400 <=> r.found
                            /\ r.status = 404 => ~users[r.id].exists

C2_Witness ==
  \E c \in Clients :
    /\ Answered(req[c]) /\ req[c].route = "DELETE /users/:id"
    /\ req[c].user.role = "admin" /\ req[c].user.userId = req[c].id
    /\ req[c].status = 400 /\ users[req[c].id].exists

\* C3 (as claimed): the handler of every state-mutating route runs only for
\* a request that has passed the authentication gate and then the role gate.
C3_BothGatesOnMutating ==
  \A c \in Clients :
    (req[c].handled /\ req[c].route \in MutatingRoutes)
      => req[c].passed = <<"auth", "admin">>

\* C3 (amended): on the routes declared with [auth, admin] the authentication
\* gate runs first, the role gate second, and the handler runs only after
\* both have passed; PUT /users/:id is declared with auth alone, so its
\* handler runs after the authentication gate only; no gate runs out of
\* this order and no handler of a gated route runs after a gate refused.
C3_GateOrder ==
  \A c \in Clients :
    LET r == req[c]
    IN  /\ r.ran \in {<<>>, <<"auth">>, <<"auth", "admin">>}
        /\ r.handled => r.passed = r.ran
        /\ (r.handled /\ r.route \in AdminRoutes)
             => r.passed = <<"auth", "admin">>
        /\ (r.handled /\ r.route = "PUT /users/:id") => r.passed = <<"auth">>
        /\ (r.pc # "idle" /\ ~r.handled)
             => /\ r.ran # <<>> /\ Len(r.passed) = Len(r.ran) - 1
                /\ r.status \in {401, 403}

C3_Witness ==
  \E c \in Clients :
    /\ Answered(req[c]) /\ req[c].route = "PUT /users/:id"
    /\ req[c].user.role = "user" /\ req[c].passed = <<"auth">>
    /\ req[c].status = 200 /\ users[req[c].id].username = "carol"

\* C4: on a route with the authentication gate, a request without an
\* extractable bearer token, or with a token that is malformed, tampered,
\* signed with another key or expired, is answered 401 and its handler never
\* runs; a handler runs only for an unexpired token the server issued, and
\* then the attached identity is the token's userId, role and email.
C4_AuthGate ==
  \A c \in Clients :
    LET r == req[c]
        valid == r.cred.how \in {"access", "refresh"} /\ r.cred.fresh
    IN  (r.pc # "idle" /\ Chain(r.route) # <<>>) =>
          /\ ~valid => r.status = 401 /\ ~r.handled /\ r.user = NoUser
                       /\ r.passed = <<>>
          /\ valid => /\ "auth" \in {r.passed[i] : i \in 1..Len(r.passed)}
                      /\ r.user.userId = r.cred.sub
                      /\ r.user.role = IF r.cred.how = "access"
                                       THEN accounts[r.cred.sub].role
                                       ELSE Undefined
                      /\ r.user.email = IF r.cred.how = "access"
                                        THEN EmailOf[r.cred.sub]
                                        ELSE Undefined

C4_Witness ==
  \E c \in Clients :
    /\ Answered(req[c]) /\ req[c].cred.how = "malformed"
    /\ req[c].route = "DELETE /users/:id" /\ req[c].status = 401

\* C5: on an admin-only route a request whose attached role is not admin is
\* answered 403 and its handler, the only code that writes, never runs; the
\* product reads run no gate and are handled without any identity.
C5_RoleGate ==
  \A c \in Clients :
    LET r == req[c]
    IN  /\ (r.pc # "idle" /\ r.route \in AdminRoutes /\ r.passed # <<>>
              /\ r.user.role # "admin")
             => r.status = 403 /\ ~r.handled /\ r.pc = "done"
        /\ (r.pc # "idle" /\ r.route \in ProductReads)
             => r.ran = <<>> /\ r.handled /\ r.user = NoUser

C5_Witness ==
  \E c \in Clients :
    /\ Answered(req[c]) /\ req[c].route = "DELETE /products/:id"
    /\ req[c].cred.how = "access" /\ req[c].user.role = "user"
    /\ req[c].status = 403

\* C6: verifyToken of an untampered token of generateToken(u, opts), applied
\* before the token's expiry, succeeds and returns userId = u, and the role
\* and email of opts when opts supplied them.
C6_RoundTrip ==
  (made.fn = "generateToken" /\ ~made.tampered /\ result.op = "verifyToken"
     /\ now < token.payload.exp) =>
    /\ result.ok
    /\ result.payload.userId = made.userId
    /\ TruthyStr(made.options.role) => result.payload.role = made.options.role
    /\ TruthyStr(made.options.email) => result.payload.email = made.options.email

C6_Witness ==
  /\ made.fn = "generateToken" /\ made.userId = "u2"
  /\ made.options.role = "admin" /\ made.options.email = "a@x.com"
  /\ result.op = "verifyToken" /\ result.ok
  /\ result.payload.userId = "u2" /\ now > made.at

\* C7 (as claimed): a token of generateToken with options.expiresIn = 0 is
\* reported expired by isTokenExpired and refused by verifyToken right after
\* it was issued.
C7_ZeroExpiry ==
  (made.fn = "generateToken" /\ ~made.tampered
     /\ made.options.expiresIn = Num(0) /\ now = made.at) =>
    /\ result.op = "isTokenExpired" => result.ok
    /\ result.op = "verifyToken" => ~result.ok

\* C8 (as claimed): a token of generateRefreshToken presented as the bearer
\* credential of a protected route does not authenticate the request.
C8_RefreshIsNoBearer ==
  \A c \in Clients :
    (req[c].pc # "idle" /\ req[c].cred.how = "refresh")
      => req[c].passed = <<>> /\ ~req[c].handled

\* C9: no token of generateToken carries type refresh, whatever the options,
\* and the refresh flow answers it 401; every token of generateRefreshToken
\* carries type refresh, expires 30 days after issue and has no role or
\* email.
C9_TokenKinds ==
  /\ made.fn = "generateToken" =>
       /\ token.payload.type # "refresh"
       /\ result.op = "refresh" => result.status = 401
  /\ made.fn = "generateRefreshToken" =>
       /\ token.payload.type = "refresh"
       /\ token.payload.exp = token.payload.iat + 30 * DAY
       /\ token.payload.role = Undefined /\ token.payload.email = Undefined

C9_Witness ==
  /\ made.fn = "generateToken" /\ made.options.type = "refresh"
  /\ ~made.tampered /\ now < token.payload.exp
  /\ result.op = "refresh" /\ result.status = 401

\* C10: a token with one symbol of its signature segment replaced is refused
\* by verifyToken and answered 401 by the authentication gate, whatever the
\* token and the position.
C10_TamperedRejected ==
  made.tampered =>
    /\ result.op = "verifyToken" => ~result.ok
    /\ result.op = "auth" => ~result.ok /\ result.status = 401

C10_Witness ==
  /\ made.tampered /\ token.sig[SigLen] # HS256(token.payload, env.JWT_SECRET)[SigLen]
  /\ now < token.payload.exp
  /\ result.op = "auth" /\ result.status = 401

C13_ExpiredCheck ==
  /\ result.op = "isTokenExpired" =>
        (result.ok <=> \/ ~token.decodes
                       \/ ~token.payload.hasExp
                       \/ token.payload.exp < now)
  /\ (result.op = "verifyToken"
        /\ (made.tampered \/ token.sig[1] = Sym(ForgerKey))) => ~result.ok

C13_Witness ==
  /\ made.fn = "jwt.sign" /\ token.sig[1] = Sym(ForgerKey)
  /\ token.payload.hasExp /\ now = token.payload.exp
  /\ result.op = "isTokenExpired" /\ ~result.ok
  /\ ~verifyToken(token, env, now).ok

\* C12 (as claimed): extractTokenFromHeader returns the token exactly for a
\* header of the two pieces 'Bearer' and a non-empty token; for no header,
\* an empty one, another or differently-cased scheme, one piece, three or
\* more pieces, or 'Bearer ' followed by nothing, it returns null.
C12_ExactBearerForm ==
  parsed # NotParsed =>
    LET exact == /\ header.present /\ Len(header.parts) = 2
                 /\ header.parts[1].text = "Bearer"
                 /\ header.parts[2].text # ""
    IN  /\ exact => parsed = Got(header.parts[2])
        /\ ~exact => parsed.isNull

C18_NoHardDelete ==
  [][ /\ \A p \in ProductIds : products[p].exists => products'[p].exists
      /\ \A c \in Clients :
           (req[c].pc = "handler" /\ req'[c].pc = "done"
              /\ req'[c].route = "DELETE /products/:id"
              /\ req'[c].status = 200)
             => /\ products'[req'[c].id].exists
                /\ ~products'[req'[c].id].isActive
      /\ \A u \in UserIds :
           (users[u].exists /\ ~users'[u].exists)
             => \E c \in Clients :
                  /\ req[c].pc = "write" /\ req[c].route = "DELETE /users/:id"
                  /\ req[c].id = u /\ req[c].user.role = "admin"
                  /\ req[c].user.userId # u
                  /\ req'[c].status = 200 ]_vars

C18_Witness ==
  \E c \in Clients :
    /\ Answered(req[c]) /\ req[c].route = "DELETE /products/:id"
    /\ req[c].status = 200 /\ req[c].id = "p1"
    /\ products["p1"].exists /\ ~products["p1"].isActive

\* C19: every request gets exactly one response, none before its handler
\* or gate has answered, and success is true exactly in the responses sent
\* with 200 or 201; whatever a store operation throws in a users or products
\* handler (a failed operation, the cast of a malformed :id, a validator, a
\* duplicate key, a document that is gone) is answered 500 with the body
\* {success: false, message: 'Server error'} and no other key.
C19_FaultsAnswered500 ==
  \A c \in Clients :
    LET r == req[c]
    IN  /\ r.pc \in {"idle", "handler", "write"} => r.sent = 0
        /\ r.pc = "done" => /\ r.sent = 1
                            /\ r.res.success <=> r.status \in {200, 201}
        /\ r.threw # "" =>
              /\ r.pc = "done" /\ r.status = 500
              /\ r.res = [success |-> FALSE, message |-> "Server error",
                          keys |-> {"success", "message"}]
        /\ r.status = 500 => r.threw # ""

C19_Witness ==
  \E c \in Clients :
    /\ Answered(req[c]) /\ req[c].route = "PUT /products/:id"
    /\ req[c].id = BadId /\ req[c].threw = "CastError"
    /\ req[c].status = 500 /\ req[c].sent = 1

\* C20: every product record has price >= 0, stock >= 0 and a category of
\* the enumeration, initially and after every step; a POST /products or
\* PUT /products/:id whose body has a negative price, a negative stock or a
\* category outside the enumeration is answered 400 and changes no record.
ProductOk(p) == p.price >= 0 /\ p.stock >= 0 /\ p.category \in Categories
Violates(body) == \/ body.price < 0
                  \/ body.category \notin Categories
                  \/ body.stock.kind = "num" /\ body.stock.n < 0

C20_ProductConstraints ==
  /\ \A p \in ProductIds : products[p].exists => ProductOk(products[p])
  /\ [][ /\ \A p \in ProductIds :
              products'[p].exists => ProductOk(products'[p])
         /\ \A c \in Clients :
              (req[c].pc = "handler" /\ req'[c].pc = "done"
                 /\ req'[c].route \in {"POST /products", "PUT /products/:id"}
                 /\ Violates(req'[c].body))
                => req'[c].status = 400 /\ products' = products ]_vars

C20_Witness ==
  \E c \in Clients :
    /\ Answered(req[c]) /\ req[c].route = "PUT /products/:id"
    /\ req[c].id = "p1" /\ req[c].body.stock = Num(-1)
    /\ req[c].status = 400 /\ products["p1"] = SeedProduct

\* C14: in every reachable state, whatever the interleaving of registrations
\* and PUT /users/:id requests, no two user records have the same username
\* and no two have the same email.
C14_UniqueNames ==
  \A u, v \in UserIds :
    (u # v /\ users[u].exists /\ users[v].exists)
      => /\ users[u].username # users[v].username
         /\ users[u].email # users[v].email

C14_Witness ==
  \E c, k \in RaceClients :
    /\ c # k /\ req[c].route = "PUT /users/:id" /\ req[k].route = "PUT /users/:id"
    /\ req[c].id # req[k].id /\ req[c].body.username = "carol"
    /\ req[k].body.username = "carol"
    /\ req[c].status = 200 /\ req[k].threw = "E11000"
    /\ users[req[c].id].username = "carol"
    /\ users[req[k].id].username # "carol"

\* C15 (as claimed): a write the unique index rejects is answered 400
\* "already taken", never 500, in PUT /users/:id as in registration.
C15_DuplicateIs400 ==
  \A c \in RaceClients :
    req[c].threw = "E11000"
      => /\ req[c].status = 400
         /\ req[c].res.message \in {"already taken", "Username already taken"}

C21_SameSecretSuffices ==
  (result.op = "peer.verifyToken" /\ verifyToken(token, env, now).ok)
    => (result.ok /\ result.payload = token.payload)

\* C21 (amended): the second instance accepts exactly the tokens the issuing
\* instance accepts when both have the same issuer string (APP_NAME, or both
\* the default), and then decodes the same claims; when their issuer strings
\* differ it accepts none of them.  JWT_EXPIRE may differ.
C21_SameIssuerSuffices ==
  result.op = "peer.verifyToken" =>
    /\ result.ok <=> (verifyToken(token, env, now).ok /\ Issuer(env) = Issuer(peer))
    /\ result.ok => result.payload = token.payload

C21_Witness ==
  /\ result.op = "peer.verifyToken" /\ result.ok
  /\ made.fn = "generateRefreshToken"
  /\ peer.JWT_EXPIRE # env.JWT_EXPIRE /\ peer.APP_NAME = "MyApp"
  /\ result.payload.userId = made.userId /\ result.payload.type = "refresh"
  /\ now > made.at

\* C22 (as claimed): a completed `restart` that began with mongodb, backend
\* and frontend all running leaves all three running, and the line "All
\* containers started successfully!" has been printed only with all three
\* running.
C22_RestartRestores ==
  /\ (docker.pc = "shell" /\ docker.cmd = "restart" /\ docker.wasUp) => AllUp
  /\ docker.said => AllUp

ActiveAdmins == {u \in UserIds : users[u].exists /\ users[u].role = "admin"
                                  /\ users[u].isActive}

\* C23 (as claimed): the store starts with an active admin, and after any
\* interleaving of DELETE /users/:id and toggle-status requests that passed
\* both gates and the self-protection check an active admin remains.
C23_ActiveAdminRemains == ActiveAdmins # {}

\* C24 (as claimed): every toggle-status request answered 200 inverted the
\* stored isActive of its user, and its response (the negation of what
\* findById loaded) is the value stored.
C24_EveryToggleInverts ==
  [][\A c \in RaceClients :
       (Writing(c, "PUT /users/:id/toggle-status") /\ req'[c].pc = "done"
        /\ req'[c].status = 200)
         => /\ users'[req[c].id].isActive = ~users[req[c].id].isActive
            /\ users'[req[c].id].isActive = ~req[c].loaded]_vars

\* C25 (as claimed): a request that changes a user or a product record bears
\* the token of a user whose record exists and is active (with one client a
\* record that is gone or inactive when the write happens was so when the
\* request arrived).
C25_RevokedStopActing ==
  [][\A c \in Clients :
       (req[c].pc # "done" /\ req'[c].pc = "done"
        /\ (users' # users \/ products' # products))
         => (users[req[c].user.userId].exists
             /\ users[req[c].user.userId].isActive)]_vars

C27_SoftDeleteIsPermanent ==
  [][ /\ \A p \in ProductIds :
           (products[p].exists /\ ~products[p].isActive)
             => (products'[p].exists /\ ~products'[p].isActive)
      /\ \A p \in ProductIds :
           (products[p].isActive /\ ~products'[p].isActive)
             => \E c \in Clients : /\ req'[c].route = "DELETE /products/:id"
                                   /\ req'[c].id = p /\ req'[c].status = 200
      /\ \A c \in Clients :
           (req[c].pc = "handler" /\ req'[c].pc = "done"
              /\ req'[c].route \in ProductReads)
             => /\ \A p \in req'[c].disclosed :
                     products'[p].exists /\ products'[p].isActive
                /\ (req'[c].route = "GET /products/:id"
                      /\ req'[c].id \in ProductIds /\ req'[c].threw = ""
                      /\ ~products'[req'[c].id].isActive)
                     => req'[c].status = 404 ]_vars

C27_Witness ==
  \E c \in Clients :
    /\ Answered(req[c]) /\ req[c].route = "PUT /products/:id"
    /\ req[c].id = "p1" /\ req[c].status = 200
    /\ products["p1"].price = 5 /\ ~products["p1"].isActive

\* C28: a product record comes into being only in POST /products, called
\* by an admin, with createdBy equal to the userId attached to that request;
\* a body with a key outside the schema (createdBy is one) creates and
\* changes nothing and is answered 400; and no step changes the createdBy of
\* a stored product.
C28_OwnershipFixed ==
  [][ /\ \A p \in ProductIds :
           products[p].exists => products'[p].createdBy = products[p].createdBy
      /\ \A p \in ProductIds :
           (~products[p].exists /\ products'[p].exists)
             => \E c \in Clients :
                  /\ req[c].pc = "handler" /\ req'[c].pc = "done"
                  /\ req'[c].route = "POST /products"
                  /\ req'[c].user.role = "admin"
                  /\ products'[p].createdBy = req'[c].user.userId
      /\ \A c \in Clients :
           (req[c].pc = "handler" /\ req'[c].pc = "done"
              /\ req'[c].route \in {"POST /products", "PUT /products/:id"}
              /\ req'[c].body.unknown)
             => req'[c].status = 400 /\ products' = products
      /\ \A c \in Clients :
           (req'[c].route = "POST /products" /\ req'[c].status = 201
              /\ req[c].pc = "handler")
             => \E p \in ProductIds : ~products[p].exists /\ products'[p].exists
    ]_vars

C28_Witness ==
  \E c \in Clients :
    /\ Answered(req[c]) /\ req[c].route = "PUT /products/:id"
    /\ req[c].user.userId = "u1" /\ req[c].id = "p2" /\ req[c].status = 200
    /\ products["p2"].createdBy = "u2" /\ products["p2"].price = 5

\* the steps a run has completed are an initial part of the order of deploy()
InOrder == /\ Len(aws'.steps) <= Len(deploy)
           /\ aws'.steps = SubSeq(deploy, 1, Len(aws'.steps))
\* a command that fails ends the run with a non-zero status
StopsAtFailure == aws'.exit # 0 => aws'.pc = "shell" /\ aws'.steps = aws.steps
\* the instances stack is created only with the infrastructure stack complete
InfrastructureFirst ==
  (aws.instances # "creating" /\ aws'.instances = "creating")
    => aws.infrastructure = "complete"
\* the banner is printed only with both stacks complete
BannerMeansDeployed ==
  aws'.printed => /\ aws'.infrastructure = "complete"
                  /\ aws'.instances = "complete" /\ aws'.steps = deploy
\* a key pair that exists is not created again and its .pem is not written
KeyPairKept ==
  /\ aws.keyPair => aws'.keyPair /\ aws'.pem # "new"
  /\ (aws.keyPair /\ aws.pem # "none") => aws'.pem = aws.pem
\* cleanup starts deleting the infrastructure stack with no instances stack
InstancesDeletedFirst ==
  (aws.cmd = "cleanup" /\ aws.pc = "delete" /\ aws.on = "infrastructure")
    => aws.instances = "absent"

\* C29 (as claimed): deploy.sh runs its steps in the order of deploy() and
\* stops at the first failing one, creates the instances stack only after
\* the infrastructure stack is complete, prints the banner only with both
\* stacks complete, never recreates an existing key pair nor writes its
\* .pem, and in cleanup deletes the instances stack to completion before
\* the infrastructure stack.
C29_DeployIsOrdered ==
  [][ /\ InOrder /\ StopsAtFailure /\ InfrastructureFirst
      /\ BannerMeansDeployed /\ KeyPairKept /\ InstancesDeletedFirst ]_vars

\* what the claim takes page and limit to be: the integer of the query, or
\* the default when the value is absent, unparsable or 0
ClaimedPage  == IF paging.page.kind = "num" /\ paging.page.n # 0
                THEN paging.page.n ELSE DefaultPage
ClaimedLimit == IF paging.limit.kind = "num" /\ paging.limit.n # 0
                THEN paging.limit.n ELSE DefaultLimit

\* C30 (as claimed): for every integer value of page and limit the answer
\* is a 200 carrying at most `limit` items, those after the first
\* (page-1)*limit matches, with current = page, total = the number of
\* matches and pages = ceil(total/limit), a non-negative integer.
C30_Pagination ==
  paging.pc = "answered" =>
    /\ paging.res.status = 200
    /\ paging.res.items <= ClaimedLimit
    /\ paging.res.items =
         Min(ClaimedLimit, Max(0, paging.matches - (ClaimedPage - 1) * ClaimedLimit))
    /\ paging.res.current = ClaimedPage
    /\ paging.res.total = paging.matches
    /\ paging.res.pages * ClaimedLimit >= paging.matches
    /\ (paging.res.pages - 1) * ClaimedLimit < paging.matches \/ paging.matches = 0
    /\ paging.res.pages >= 0

====
